---- MODULE Spec2Model ----
(***************************************************************************)
(* Model of the property-inheritance and template-expansion engine of qsp  *)
(* (src/unnamed/part_001: lookup, expand) and of the application object    *)
(* the client constructs around it (src/index.js: main, makeApp).          *)
(*                                                                         *)
(* JavaScript strings are sequences of one-character strings, so that the  *)
(* token regular expression, the escape peeling and the transform          *)
(* functions are computed character by character, as the code does.        *)
(*                                                                         *)
(* Modelling restrictions (stated, not hidden):                            *)
(*  - token keys are either all-digit words or words starting with a       *)
(*    letter; Number() of other words that JavaScript also accepts         *)
(*    ("1e3", "0x1f", "Infinity") is outside the model's alphabet;         *)
(*  - keys never name members of Object.prototype ("constructor", ...).    *)
(***************************************************************************)
EXTENDS Integers, Sequences, FiniteSets, TLC

\* ------------------------------------------------------------------ bounds
\* Deepest nesting of lookup/expand calls the model follows before it
\* reports a RangeError (the JavaScript call stack is finite too).
MaxDepth == 12

\* Number of expansion passes applied in a row to one text.
MaxPasses == 3

\* Largest numeric setList index requested from outside.
MaxIndex == 3

\* ------------------------------------------------------------- characters
Digits == {"0", "1", "2", "3", "4", "5", "6", "7", "8", "9"}

Letters ==
    {"a", "b", "c", "d", "e", "f", "g", "h", "i", "j", "k", "l", "m", "n",
     "o", "p", "q", "r", "s", "t", "u", "v", "w", "x", "y", "z",
     "A", "B", "C", "D", "E", "F", "G", "H", "I", "J", "K", "L", "M", "N",
     "O", "P", "Q", "R", "S", "T", "U", "V", "W", "X", "Y", "Z"}

\* The regular expression class \w
WordChars == Digits \cup Letters \cup {"_"}

IsWord(c) == c \in WordChars

DigitVal(c) ==
    CASE c = "0" -> 0 [] c = "1" -> 1 [] c = "2" -> 2 [] c = "3" -> 3
      [] c = "4" -> 4 [] c = "5" -> 5 [] c = "6" -> 6 [] c = "7" -> 7
      [] c = "8" -> 8 [] OTHER -> 9

DigitChar(n) ==
    CASE n = 0 -> "0" [] n = 1 -> "1" [] n = 2 -> "2" [] n = 3 -> "3"
      [] n = 4 -> "4" [] n = 5 -> "5" [] n = 6 -> "6" [] n = 7 -> "7"
      [] n = 8 -> "8" [] OTHER -> "9"

Sub(t, i, j) == IF j < i THEN << >> ELSE SubSeq(t, i, j)

\* String(n) for a non-negative integer
RECURSIVE NumToStr(_)
NumToStr(n) ==
    IF n < 10 THEN << DigitChar(n) >>
    ELSE NumToStr(n \div 10) \o << DigitChar(n % 10) >>

\* Number(w) for an all-digit word
RECURSIVE DecimalValue(_)
DecimalValue(w) ==
    IF w = << >> THEN 0
    ELSE 10 * DecimalValue(Sub(w, 1, Len(w) - 1)) + DigitVal(w[Len(w)])

\* --------------------------------------------------------------- JS values
\* Every JavaScript value is a record [t, s]: its typeof-like tag and, for
\* a string, its characters.  TypeError / RangeError stand for a call that
\* throws instead of returning.
Str(s) == [t |-> "string", s |-> s]
Null == [t |-> "null", s |-> << >>]
Bool(b) == [t |-> "boolean", s |-> IF b THEN <<"true">> ELSE <<"false">>]
Num(n) == [t |-> "number", s |-> NumToStr(n)]
Obj(id) == [t |-> "object", s |-> << id >>]
TypeError == [t |-> "TypeError", s |-> << >>]
RangeError == [t |-> "RangeError", s |-> << >>]

IsString(v) == v.t = "string"
IsNullish(v) == v.t = "null"
IsThrow(v) == v.t \in {"TypeError", "RangeError"}
\* JavaScript truthiness of a value
Truthy(v) ==
    CASE v.t = "null" -> FALSE
      [] v.t = "string" -> v.s # << >>
      [] v.t = "boolean" -> v.s = <<"true">>
      [] v.t = "number" -> v.s # <<"0">>
      [] OTHER -> TRUE

\* set / setList keys: a number or a string (typeof setKey), or null
KNum(n) == [t |-> "number", n |-> n, s |-> NumToStr(n)]
KStr(s) == [t |-> "string", n |-> 0, s |-> s]
KNull == [t |-> "null", n |-> 0, s |-> << >>]

\* The `key` argument of lookup when it is null
NullKey == "null"

\* A `seen` argument: a Set, or undefined when the caller passes none
SeenSet(keys) == [def |-> TRUE, keys |-> keys]
SeenUndefined == [def |-> FALSE, keys |-> {}]

\* A button-like record; NullButton is a null / undefined button
NullButton == [nil |-> TRUE, is |-> "", props |-> << >>, set |-> << >>,
               setList |-> << >>]

Button(is, props, set, setList) ==
    [nil |-> FALSE, is |-> is, props |-> props, set |-> set,
     setList |-> setList]


\* An application object: the template map of its configuration and its
\* setGlobals member, which is either an object (def) or undefined.
App(templates, setGlobals) ==
    [templates |-> templates, setGlobals |-> setGlobals]

GlobalsUndefined == [def |-> FALSE, map |-> << >>]
GlobalsMap(m) == [def |-> TRUE, map |-> m]

\* ------------------------------------------------------- the token grammar
\* End (exclusive) of the longest run of \w characters starting at i
WordEnd(t, i) ==
    CHOOSE j \in i..(Len(t) + 1) :
        /\ \A k \in i..(j - 1) : IsWord(t[k])
        /\ (j = Len(t) + 1 \/ ~IsWord(t[j]))

\* End (exclusive) of the longest run of backslashes starting at i
SlashEnd(t, i) ==
    CHOOSE j \in i..(Len(t) + 1) :
        /\ \A k \in i..(j - 1) : t[k] = "\\"
        /\ (j = Len(t) + 1 \/ t[j] # "\\")

NoMatch ==
    [ok |-> FALSE, end |-> 0, match |-> << >>, slash |-> << >>,
     body |-> << >>, hasFn |-> FALSE, fn |-> << >>, key |-> << >>]

\* One match of /\$(\\+)?\{((?:(\w+):)?(\w+))\}/ anchored at position i:
\* the groups (slash, mBody, mFn, mKey) and the last matched position.
MatchAt(t, i) ==
    IF i > Len(t) \/ t[i] # "$" THEN NoMatch
    ELSE
      LET s == SlashEnd(t, i + 1)
          w1 == WordEnd(t, s + 1)
          w2 == WordEnd(t, w1 + 1)
      IN  IF s > Len(t) \/ t[s] # "{" THEN NoMatch
          ELSE IF w1 = s + 1 \/ w1 > Len(t) THEN NoMatch
          ELSE IF t[w1] = "}" THEN
              [ok |-> TRUE, end |-> w1, match |-> Sub(t, i, w1),
               slash |-> Sub(t, i + 1, s - 1), body |-> Sub(t, s + 1, w1 - 1),
               hasFn |-> FALSE, fn |-> << >>, key |-> Sub(t, s + 1, w1 - 1)]
          ELSE IF t[w1] # ":" THEN NoMatch
          ELSE IF w2 = w1 + 1 \/ w2 > Len(t) \/ t[w2] # "}" THEN NoMatch
          ELSE
              [ok |-> TRUE, end |-> w2, match |-> Sub(t, i, w2),
               slash |-> Sub(t, i + 1, s - 1), body |-> Sub(t, s + 1, w2 - 1),
               hasFn |-> TRUE, fn |-> Sub(t, s + 1, w1 - 1),
               key |-> Sub(t, w1 + 1, w2 - 1)]

\* Variant: every token key is kept as a string (the Number() step lost)
TokenKey_String(mKey) == KStr(mKey)

\* number(Number(mKey)) ?? string(mKey) ?? '': an all-digit word is a
\* number, any other word of the model's alphabet is NaN and stays a string
TokenKey(mKey) ==
    IF mKey # << >> /\ \A k \in 1..Len(mKey) : mKey[k] \in Digits
    THEN KNum(DecimalValue(mKey))
    ELSE KStr(mKey)

\* Variant: the whole backslash run is dropped instead of one backslash
Peel_All(slash, body) == <<"$", "{">> \o body \o <<"}">>

\* `$${slash.substring(1)}{${body}}`
Peel(slash, body) ==
    <<"$">> \o Sub(slash, 2, Len(slash)) \o <<"{">> \o body \o <<"}">>

\* Variant: the visited-token check never fires
SeenHas_Never(keys, key) == FALSE

\* seen.has(key)
SeenHas(keys, key) == key \in keys

\* ------------------------------------------------------ transform functions
Unreserved ==
    Digits \cup Letters \cup {"-", "_", ".", "!", "~", "*", "'", "(", ")"}

\* Percent-encoding of the reserved ASCII characters of the model's alphabet
PercentCode(c) ==
    CASE c = " " -> <<"%", "2", "0">>
      [] c = "\"" -> <<"%", "2", "2">>
      [] c = "$" -> <<"%", "2", "4">>
      [] c = "%" -> <<"%", "2", "5">>
      [] c = ":" -> <<"%", "3", "A">>
      [] c = "[" -> <<"%", "5", "B">>
      [] c = "\\" -> <<"%", "5", "C">>
      [] c = "]" -> <<"%", "5", "D">>
      [] c = "{" -> <<"%", "7", "B">>
      [] c = "}" -> <<"%", "7", "D">>
      [] OTHER -> <<"%", "3", "F">>

\* encodeURIComponent(value)
RECURSIVE UrlEncode(_)
UrlEncode(s) ==
    IF s = << >> THEN << >>
    ELSE (IF Head(s) \in Unreserved THEN << Head(s) >>
          ELSE PercentCode(Head(s))) \o UrlEncode(Tail(s))

RECURSIVE JsonEscape(_)
JsonEscape(s) ==
    IF s = << >> THEN << >>
    ELSE (IF Head(s) \in {"\"", "\\"} THEN << "\\", Head(s) >>
          ELSE << Head(s) >>) \o JsonEscape(Tail(s))

\* JSON.stringify(value) of a string
JsonStringify(s) == <<"\"">> \o JsonEscape(s) \o <<"\"">>

FnUrlencode == <<"u", "r", "l", "e", "n", "c", "o", "d", "e">>
FnJsonString == <<"j", "s", "o", "n", "S", "t", "r", "i", "n", "g">>

\* Variant: `value || match`, so that an empty value keeps the token
Transform_Falsy(m, value) ==
    IF Truthy(value) /\ m.hasFn /\ m.fn = FnUrlencode
    THEN Str(UrlEncode(value.s))
    ELSE IF Truthy(value) /\ m.hasFn /\ m.fn = FnJsonString
    THEN Str(JsonStringify(value.s))
    ELSE IF Truthy(value) THEN value
    ELSE Str(m.match)

\* Variant: the transform prefix is ignored
Transform_NoFn(m, value) ==
    IF ~IsNullish(value) THEN value ELSE Str(m.match)

\* Lines 226-231 of expand: the text a resolved token is replaced by
Transform(m, value) ==
    IF Truthy(value) /\ m.hasFn /\ m.fn = FnUrlencode
    THEN Str(UrlEncode(value.s))
    ELSE IF Truthy(value) /\ m.hasFn /\ m.fn = FnJsonString
    THEN Str(JsonStringify(value.s))
    ELSE IF ~IsNullish(value) THEN value
    ELSE Str(m.match)

\* ------------------------------------------------------------------ lookup
\* Variant: the operands of ?? swapped, so the farther value wins
Coalesce_Flipped(a, b) == IF IsNullish(b) THEN a ELSE b

\* a ?? b
Coalesce(a, b) == IF IsNullish(a) THEN b ELSE a

\* Variant: `is` is ignored, no record has a parent
Parent_None(app, button) == NullButton

\* button?.is ? (templates?.[button.is] ?? null) : null
Parent(app, button) ==
    IF button.nil \/ button.is = "" THEN NullButton
    ELSE IF button.is \in DOMAIN app.templates
    THEN app.templates[button.is]
    ELSE NullButton

\* Variant: `button[key] || ...`, a falsy own value counts as missing
OwnProp_Truthy(button, key) ==
    IF key \in DOMAIN button.props /\ Truthy(button.props[key])
    THEN button.props[key]
    ELSE Null

\* button[key]
OwnProp(button, key) ==
    IF key \in DOMAIN button.props THEN button.props[key] ELSE Null

\* Variant: the record's own `set` is not read
OwnSet_Never(button, setKey) == Null

\* button.set?.[setKey]
OwnSet(button, setKey) ==
    IF setKey.s \in DOMAIN button.set THEN Str(button.set[setKey.s])
    ELSE Null

\* button.setList?.[setKey]
OwnList(button, setKey) ==
    IF setKey.n + 1 \in 1..Len(button.setList)
    THEN Str(button.setList[setKey.n + 1])
    ELSE Null

\* app.setGlobals[setKey] ?? null: reading a member of undefined throws
Globals(app, setKey) ==
    IF ~app.setGlobals.def THEN TypeError
    ELSE IF setKey.s \in DOMAIN app.setGlobals.map
    THEN Str(app.setGlobals.map[setKey.s])
    ELSE Null

\* Variant: the expansion of a top-level lookup starts with an empty set
FreshSeen_Empty(setKey) == SeenSet({})

\* new Set([setKey ?? ''])
FreshSeen(setKey) ==
    SeenSet({IF setKey.t = "null" THEN KStr(<< >>) ELSE setKey})

\* Variant: a string is expanded in internal-lookup mode too
ShouldExpand_Always(isLookup, result) == IsString(result)

\* !isLookup && typeof result === 'string'
ShouldExpand(isLookup, result) == ~isLookup /\ IsString(result)

\* Variant: the token callback asks for an internal (raw) lookup
TokenIsLookup_Raw == TRUE

\* The isLookup argument the token callback of expand passes to lookup
TokenIsLookup == FALSE

\* Variant: the lookup on the parent expands what it finds, with the parent
\* as the context
ParentIsLookup_Expanding == FALSE

\* The isLookup argument of the recursive lookup on the parent
ParentIsLookup == TRUE

\* Variant: a resolved key stays in the visited set
SeenDelete_Never(keys, key) == keys

\* seen.delete(key)
SeenDelete(keys, key) == keys \ {key}

RECURSIVE Lookup(_, _, _, _, _, _, _)
RECURSIVE Expand(_, _, _, _, _)
RECURSIVE ExpandFrom(_, _, _, _, _, _)

\* The replaceAll callback of expand for one match m; keys is the content
\* of `seen` when the callback starts.  Yields the replacement and the
\* content of `seen` when it ends.
Replace(app, button, m, keys, d) ==
    LET key == TokenKey(m.key) IN
    IF m.slash # << >> THEN
        [v |-> Str(Peel(m.slash, m.body)), seen |-> keys]
    ELSE IF SeenHas(keys, key) THEN
        [v |-> Str(m.match), seen |-> keys]
    ELSE
        LET r == Lookup(app, button, NullKey, key, TokenIsLookup,
                        SeenSet(keys \cup {key}), d + 1)
        IN  IF IsThrow(r.v) THEN [v |-> r.v, seen |-> r.seen.keys]
            ELSE [v |-> Transform(m, r.v), seen |-> SeenDelete(r.seen.keys, key)]

\* text.replaceAll(getTokens, callback) from position i on
ExpandFrom(app, button, t, i, keys, d) ==
    IF i > Len(t) THEN [v |-> Str(<< >>), seen |-> keys]
    ELSE
      LET m == MatchAt(t, i) IN
      IF ~m.ok THEN
          LET r == ExpandFrom(app, button, t, i + 1, keys, d)
          IN  IF IsThrow(r.v) THEN r
              ELSE [v |-> Str(<< t[i] >> \o r.v.s), seen |-> r.seen]
      ELSE
          LET rep == Replace(app, button, m, keys, d)
              r == ExpandFrom(app, button, t, m.end + 1, rep.seen, d)
          IN  IF IsThrow(rep.v) THEN rep
              ELSE IF IsThrow(r.v) THEN r
              ELSE [v |-> Str(rep.v.s \o r.v.s), seen |-> r.seen]

\* expand(app, button, text, seen = new Set())
Expand(app, button, text, seen, d) ==
    IF d > MaxDepth THEN [v |-> RangeError, seen |-> seen]
    ELSE
      LET r == ExpandFrom(app, button, text, 1,
                          IF seen.def THEN seen.keys ELSE {}, d)
      IN  [v |-> r.v, seen |-> IF seen.def THEN SeenSet(r.seen) ELSE seen]

\* lookup(app, button, key, setKey = null, isLookup, seen)
Lookup(app, button, key, setKey, isLookup, seen, d) ==
    IF d > MaxDepth THEN [v |-> RangeError, seen |-> seen]
    ELSE
      LET parent == Parent(app, button)
          fromButton == ~button.nil /\ key # NullKey /\ setKey.t = "null"
          fromList == ~button.nil /\ key = NullKey /\ setKey.t = "number"
          fromMap == ~button.nil /\ key = NullKey /\ setKey.t = "string"
          fromSet == fromList \/ fromMap
          own == Coalesce(IF fromMap THEN OwnSet(button, setKey) ELSE Null,
                          IF fromList THEN OwnList(button, setKey) ELSE Null)
          inherited ==
              Coalesce(own,
                  IF fromSet
                  THEN Lookup(app, parent, NullKey, setKey, ParentIsLookup,
                              seen, d + 1).v
                  ELSE Null)
          setValue ==
              Coalesce(inherited,
                  IF fromSet THEN Globals(app, setKey) ELSE Null)
          result ==
              IF fromButton
              THEN Coalesce(OwnProp(button, key),
                       Lookup(app, parent, key, KNull, ParentIsLookup, seen,
                              d + 1).v)
              ELSE setValue
      IN  IF ShouldExpand(isLookup, result)
          THEN LET e == Expand(app, button, result.s,
                               IF seen.def THEN seen ELSE FreshSeen(setKey),
                               d + 1)
               IN  [v |-> e.v, seen |-> IF seen.def THEN e.seen ELSE seen]
          ELSE [v |-> result, seen |-> seen]


\* ---------------------------------------------------------- configurations
\* ${key}, ${fn:key} and the same with n backslashes after the dollar sign
Tok(k) == <<"$", "{">> \o k \o <<"}">>
TokFn(f, k) == <<"$", "{">> \o f \o <<":">> \o k \o <<"}">>
Slashes(n) == [i \in 1..n |-> "\\"]
Esc(n, body) == <<"$">> \o Slashes(n) \o <<"{">> \o body \o <<"}">>

kx == <<"x">>
ky == <<"y">>
kz == <<"z">>
k0 == <<"0">>
k1 == <<"1">>
ka == <<"a">>

\* `set` maps of the button: self reference, references to inherited keys
\* and to setList entries, text that needs encoding, a string key "0"
BSets ==
    { << >>,
      (kx :> (Tok(ky) \o <<"-">> \o Tok(k0))),
      (ky :> <<"a", "\"", "b">>) @@ (k0 :> <<"s", "0">>),
      (kx :> (<<"x">> \o Tok(kx) \o <<"x">>)) @@ (ky :> <<"a", "\"", "b">>)
          @@ (k0 :> <<"s", "0">>),
      (kx :> (Tok(ky) \o <<"-">> \o Tok(k0))) @@ (ky :> <<"s", " ", "s">>),
      (ky :> (<<"y">> \o Tok(ka) \o <<"y">>)) }

BLists == { << >>, << <<"b", "0">> >> }

BProps ==
    { << >>,
      ("proxyUrl" :> Str(<<"u", ":">> \o Tok(kx) \o Esc(1, kx)))
          @@ ("showOutput" :> Bool(FALSE)) @@ ("command" :> Str(<< >>))
          @@ ("repeat" :> Num(0)) }

\* Templates: T1 may inherit from T2
T1Props ==
    ("proxyUrl" :> Str(Tok(k0) \o Tok(kz))) @@ ("showOutput" :> Bool(TRUE))
        @@ ("request" :> Obj("t1-request")) @@ ("repeat" :> Num(500))

T1List == << Tok(kx), <<"t", "1">> >>

T1Pool ==
    { Button("", << >>, << >>, << >>),
      Button("", T1Props,
             (kx :> (<<"t">> \o Tok(ky)))
                 @@ (ka :> (<<"a">> \o Tok(ky) \o <<"a">>)),
             T1List),
      Button("", << >>, (ky :> (<<"y">> \o Tok(kx) \o Tok(k1))), T1List),
      Button("", T1Props,
             (kx :> (<<"t">> \o Tok(ky)))
                 @@ (ky :> (<<"y">> \o Tok(kx) \o Tok(k1))),
             << >>) }

T2Pool ==
    { Button("",
             ("proxyUrl" :> Str(<<"t", "2">>)) @@ ("showOutput" :> Bool(TRUE))
                 @@ ("repeat" :> Num(0))
                 @@ ("command" :> Str(<<"t", "2", "c">>)),
             st,
             << <<"u", "0">>, <<"u", "1">>, (<<"u">> \o Tok(ky)) >>)
      : st \in { << >>, (ky :> << >>) @@ (kz :> Tok(kz)) } }

TDefault == Button("", << >>, << >>, << >>)

\* app.setGlobals: undefined, as main() and the tests' makeApp construct the
\* application object, or a map handed in by a caller of lookup
GlobalsPool ==
    { GlobalsUndefined,
      GlobalsMap(<< >>),
      GlobalsMap((kx :> <<"g", "x">>) @@ (kz :> (<<"g">> \o Tok(kx)))
                     @@ (k1 :> <<"g", "1">>)
                     @@ (<<"r", "e", "p", "e", "a", "t">> :> <<"g", "r">>)) }

\* The `is` shapes: no parent, a parent that is not in the template map,
\* one template, a chain of two templates
Shapes == {"none", "missing", "one", "two"}

ShapeIs(shape) ==
    CASE shape = "none" -> ""
      [] shape = "missing" -> "Tm"
      [] OTHER -> "T1"

PropNames == {"proxyUrl", "showOutput", "repeat", "command", "request"}
SetKeys == {kx, ky, kz}

\* Texts handed to expand from outside: tokens of every form, escaped
\* tokens, sibling tokens, and text outside the token grammar
EscTexts == { Esc(n, b) : n \in 1..MaxPasses, b \in {kx, FnUrlencode \o <<":">> \o kx} }

TextPool ==
    { Tok(kx), Tok(ky), Tok(kz), Tok(k0), Tok(k1),
      TokFn(FnUrlencode, ky), TokFn(FnJsonString, ky), TokFn(<<"f", "o", "o">>, ky),
      <<"a">> \o Tok(kx) \o <<"b">> \o Tok(kx),
      <<"$", "{", "}">>, <<"$", "{", "a", "-", "b", "}">>,
      <<"$", "{", "a", ":", "b", ":", "c", "}">>, <<"$", "{", "a">>,
      <<"[">> \o Tok(ky) \o <<"]">> }
    \cup EscTexts

\* The calls made from outside: <<record, property, isLookup>>,
\* <<record, set or setList key, isLookup>> and <<text, seen>>
PropCalls ==
    ({"button", "T1"} \X PropNames \X BOOLEAN)
        \cup {<<"null", "proxyUrl", FALSE>>}

SetCalls ==
    ({"button"} \X ({KStr(w) : w \in SetKeys}
                       \cup {KNum(i) : i \in 0..MaxIndex}) \X BOOLEAN)
        \cup ({"T1", "null"} \X {KStr(kx), KNum(0)} \X {FALSE})

ExpandCalls ==
    (TextPool \X {SeenUndefined})
        \cup ({Tok(kx), Tok(ky), Tok(kz), Tok(k0),
               <<"a">> \o Tok(kx) \o <<"b">> \o Tok(kx)}
              \X {SeenSet({KStr(kx), KStr(kz), KNum(0)})})

\* ------------------------------------------------------------------ state
VARIABLES
    app,      \* the application object: config.templates and setGlobals
    button,   \* the displayed button
    pc,       \* "idle", or "returned" after a call of lookup / expand
    call,     \* the arguments of the last call
    result,   \* what the last call returned (or threw) and `seen` afterwards
    heldButtons,  \* app.heldButtons: button -> its AbortController (the
                  \* index of the press that created it, 0 if none)
    presses,  \* the runButton chains started so far, one per press/change
    reads,    \* what the press handlers read of each button through lookup
              \* and expand; no handler changes app or a button, so it is
              \* the same at every step

    tasks,    \* the server's task map: command id -> the task stored under
              \* it (the index of the run request that created it)
    requests, \* the `do=run` requests received so far, each with its handler's
              \* position, its task object, its process and its response
    now       \* Date.now(), in days

\* The state of the panel client and of the server
client == << app, button, pc, call, result, heldButtons, presses, reads >>
server == << tasks, requests, now >>

vars ==
    << app, button, pc, call, result, heldButtons, presses, reads, tasks,
       requests, now >>

\* A second button of the panel, which takes everything from template T1
Sibling == Button("T1", << >>, << >>, << >>)

\* The buttons of the panel a pointer can press
HoldIds == {"button", "sibling"}

\* new Map()
NoneHeld == [b \in HoldIds |-> 0]

NoCall ==
    [op |-> "none", on |-> "none", key |-> NullKey, setKey |-> KNull,
     isLookup |-> FALSE, seen |-> SeenUndefined, text |-> << >>, pass |-> 0]

NoResult == [v |-> Null, seen |-> SeenUndefined]

\* The record a call is made on: the button, a template, or null
Target(on) ==
    CASE on = "button" -> button
      [] on = "sibling" -> Sibling
      [] on = "null" -> NullButton
      [] OTHER -> app.templates[on]

Init ==
    /\ \E g \in GlobalsPool, bs \in BSets, bl \in BLists, bp \in BProps,
          shape \in Shapes :
         \E t1 \in (IF shape \in {"one", "two"} THEN T1Pool ELSE {TDefault}),
            t2 \in (IF shape = "two" THEN T2Pool ELSE {TDefault}) :
           /\ button = Button(ShapeIs(shape), bp, bs, bl)
           /\ app = App(("T1" :> [t1 EXCEPT !.is =
                                     IF shape = "two" THEN "T2" ELSE ""])
                            @@ ("T2" :> t2), g)
    /\ pc = "idle"
    /\ call = NoCall
    /\ result = NoResult
    /\ heldButtons = NoneHeld
    /\ presses = << >>
    /\ reads = << >>
    /\ tasks = << >>
    /\ requests = << >>
    /\ now = 0

\* Variant: lookup memoises a resolved `set` value on the button
InputsAfter_Memo(a, b, c, r) ==
    << a,
       IF c.op = "lookup" /\ c.on = "button" /\ c.setKey.t = "string"
          /\ IsString(r.v)
       THEN [b EXCEPT !.set = (c.setKey.s :> r.v.s) @@ @]
       ELSE b >>

\* The application object and the button after call c returned r: lookup
\* and expand hold no assignment to a member of app, of a template or of
\* the button (their only writes are seen.add / seen.delete)
InputsAfter(a, b, c, r) == << a, b >>

\* lookup(app, record, p) and lookup(app, record, p, null, true)
CallLookupProp(on, p, isLookup) ==
    /\ pc = "idle"
    /\ call' = [NoCall EXCEPT !.op = "lookup", !.on = on, !.key = p,
                              !.isLookup = isLookup]
    /\ result' = Lookup(app, Target(on), p, KNull, isLookup, SeenUndefined, 0)
    /\ pc' = "returned"
    /\ app' = InputsAfter(app, button, call', result')[1]
    /\ button' = InputsAfter(app, button, call', result')[2]
    /\ UNCHANGED << heldButtons, presses, reads, server >>

\* lookup(app, record, null, k) for a string or a numeric k
CallLookupSet(on, k, isLookup) ==
    /\ pc = "idle"
    /\ call' = [NoCall EXCEPT !.op = "lookup", !.on = on, !.setKey = k,
                              !.isLookup = isLookup]
    /\ result' = Lookup(app, Target(on), NullKey, k, isLookup,
                        SeenUndefined, 0)
    /\ pc' = "returned"
    /\ app' = InputsAfter(app, button, call', result')[1]
    /\ button' = InputsAfter(app, button, call', result')[2]
    /\ UNCHANGED << heldButtons, presses, reads, server >>

\* expand(app, button, text) and expand(app, button, text, seen)
CallExpand(text, seen) ==
    /\ pc = "idle"
    /\ call' = [NoCall EXCEPT !.op = "expand", !.on = "button",
                              !.text = text, !.seen = seen, !.pass = 1]
    /\ result' = Expand(app, button, text, seen, 0)
    /\ pc' = "returned"
    /\ app' = InputsAfter(app, button, call', result')[1]
    /\ button' = InputsAfter(app, button, call', result')[2]
    /\ UNCHANGED << heldButtons, presses, reads, server >>

\* A further expansion pass over the text the previous pass returned
ExpandAgain ==
    /\ pc = "returned"
    /\ call.op = "expand"
    /\ call.pass < MaxPasses
    /\ IsString(result.v)
    /\ call' = [call EXCEPT !.pass = @ + 1]
    /\ result' = Expand(app, button, result.v.s, call.seen, 0)
    /\ app' = InputsAfter(app, button, call', result')[1]
    /\ button' = InputsAfter(app, button, call', result')[2]
    /\ UNCHANGED << pc, heldButtons, presses, reads, server >>

Return ==
    /\ pc = "returned"
    /\ pc' = "idle"
    /\ call' = NoCall
    /\ result' = NoResult
    /\ UNCHANGED << app, button, heldButtons, presses, reads, server >>

Next ==
    \/ \E c \in PropCalls : CallLookupProp(c[1], c[2], c[3])
    \/ \E c \in SetCalls : CallLookupSet(c[1], c[2], c[3])
    \/ \E c \in ExpandCalls : CallExpand(c[1], c[2])
    \/ ExpandAgain
    \/ Return

Spec == Init /\ [][Next]_vars

\* ------------------------------------------------------------ held buttons
\* runButton, onPress, onRelease and releaseAll of the client
\* (src/index.js).  A press is one chain of runButton calls: the call made
\* by onPress and the repeated calls its timers make.  The application
\* object is the one main() constructs; the command map is empty (no
\* command server was loaded) and no button has `arguments`, so onPress
\* never opens the input dialog.  onChange, which calls runButton without a
\* signal and so never sets a timer, is not part of the model.

\* The number of presses of one run of the model
MaxPresses == 2

\* The number of requests one press may make before the model stops it
MaxRequests == 2

\* `?? 1000`, the wait when neither repeatInitial nor repeat is defined
RepeatDefault == 1000

\* The properties runButton and the handlers read
RunProps ==
    {"command", "commandUrl", "proxyUrl", "isPersisted", "showOutput",
     "request", "repeatInitial", "repeat"}

\* The request objects of the configurations and their urls
Requests == {Obj("b-request"), Obj("t1-request")}

RequestUrl(req) ==
    IF req = Obj("t1-request")
    THEN <<"/">> \o Tok(kx) \o <<".", "m", "d">>
    ELSE <<"/", "R", "E", "A", "D", "M", "E", ".", "m", "d">>

\* What the handlers read of button b: lookup(app, button, p) for each
\* property p, and sub(inRequest.url) = expand(app, button, url) for the
\* url of each request object
RunFacts(b) ==
    [props |-> [p \in RunProps |->
                  Lookup(app, Target(b), p, KNull, FALSE, SeenUndefined,
                         0).v],
     url |-> [u \in {RequestUrl(r) : r \in Requests} |->
                Expand(app, Target(b), u, SeenUndefined, 0).v]]

\* getCommand and the guard `commandName && !command` of onChange and
\* onPress: the lookup may throw, a named command is never in the empty map
CommandGuard(f) ==
    IF IsThrow(f.props["command"]) \/ IsThrow(f.props["commandUrl"])
    THEN "threw"
    ELSE IF Truthy(f.props["command"]) THEN "return"
    ELSE "go"

\* runButton up to its fetch: "threw" when a lookup or a substitution
\* throws, "done" when it returns without a request, "fetching" otherwise
RunStart(f) ==
    IF \E p \in {"command", "commandUrl", "proxyUrl", "isPersisted",
                 "showOutput", "request"} : IsThrow(f.props[p])
    THEN "threw"
    ELSE IF Truthy(f.props["command"]) \/ ~Truthy(f.props["request"])
    THEN "done"
    ELSE IF IsThrow(f.url[RequestUrl(f.props["request"])]) THEN "threw"
    ELSE "fetching"

\* The runButton chain a press of button b starts
NewPress(b, f) ==
    [button |-> b, aborted |-> FALSE,
     phase |-> RunStart(f), isRepeat |-> FALSE,
     requests |-> IF RunStart(f) = "fetching" THEN 1 ELSE 0,
     waits |-> << >>]

\* app.heldButtons.get(button)?.abort()
Abort(ps, i) ==
    IF i = 0 THEN ps ELSE [ps EXCEPT ![i].aborted = TRUE]

\* The presses after releaseAll: every controller in the map is aborted
AllAborted(ps, held) ==
    [i \in DOMAIN ps |->
        IF \E b \in HoldIds : held[b] = i
        THEN [ps[i] EXCEPT !.aborted = TRUE] ELSE ps[i]]

\* Variant: repeatInitial is read on every repetition
RepeatWait_AlwaysInitial(f, isRepeat) ==
    Coalesce(Coalesce(f.props["repeatInitial"], f.props["repeat"]),
             Num(RepeatDefault))

\* (!isRepeat ? lookup(app, button, 'repeatInitial') : null)
\*     ?? lookup(app, button, 'repeat') ?? 1000
RepeatWait(f, isRepeat) ==
    Coalesce(Coalesce(IF ~isRepeat THEN f.props["repeatInitial"] ELSE Null,
                      f.props["repeat"]),
             Num(RepeatDefault))

\* The end of runButton: `if (signal && !signal.aborted)` sets the timer
Schedule(ps, i, f) ==
    IF ~ps[i].aborted
    THEN IF IsThrow(RepeatWait(f, ps[i].isRepeat))
         THEN [ps EXCEPT ![i].phase = "threw"]
         ELSE [ps EXCEPT ![i].phase = "timer",
                         ![i].waits = Append(@, RepeatWait(f,
                                                           ps[i].isRepeat))]
    ELSE [ps EXCEPT ![i].phase = "done"]

\* Variant: the timer callback does not look at the signal
TimerRuns_Always(p) == TRUE

\* `if (!signal.aborted)` in the timer callback
TimerRuns(p) == ~p.aborted

\* Buttons and templates of the hold configurations: waits from the README
\* example, a wait of 0 (second template), waits inherited from T1, no
\* waits at all (the sibling under the third template), a command that is
\* not loaded, and a button without a request
HoldButtons ==
    { Button("T1", << >>, (kx :> <<"R">>), << >>),
      Button("T1", ("repeatInitial" :> Num(2000)), << >>, << >>),
      Button("", ("repeatInitial" :> Num(2000)) @@ ("repeat" :> Num(500))
                     @@ ("request" :> Obj("b-request"))
                     @@ ("showOutput" :> Bool(TRUE)),
             << >>, << >>),
      Button("T1", ("command" :> Str(<<"l", "s">>)), << >>, << >>),
      Button("", << >>, << >>, << >>) }

HoldTemplates ==
    { Button("", ("request" :> Obj("t1-request")) @@ ("repeat" :> Num(500)),
             (kx :> <<"t">>), << >>),
      Button("", ("request" :> Obj("t1-request"))
                     @@ ("repeatInitial" :> Num(0)),
             << >>, << >>),
      Button("", ("request" :> Obj("b-request")), << >>, << >>) }

InitHold ==
    /\ \E b \in HoldButtons, t1 \in HoldTemplates :
         /\ button = b
         /\ app = App(("T1" :> t1) @@ ("T2" :> TDefault), GlobalsUndefined)
    /\ pc = "idle"
    /\ call = NoCall
    /\ result = NoResult
    /\ heldButtons = NoneHeld
    /\ presses = << >>
    /\ reads = [b \in HoldIds |-> RunFacts(b)]
    /\ tasks = << >>
    /\ requests = << >>
    /\ now = 0

\* onPress(app, button, true, ev)
OnPress(b, f) ==
    /\ Len(presses) < MaxPresses
    /\ CommandGuard(f) = "go"
    /\ presses' = Append(Abort(presses, heldButtons[b]), NewPress(b, f))
    /\ heldButtons' = [heldButtons EXCEPT ![b] = Len(presses) + 1]
    /\ UNCHANGED << app, button, pc, call, result, reads, server >>

\* onPress on a button whose command is not loaded, or whose
\* command lookup throws: the handler ends before it touches anything
OnBlocked(b, f) ==
    /\ CommandGuard(f) # "go"
    /\ UNCHANGED vars

\* onRelease(app, button)
OnRelease(b) ==
    /\ presses' = Abort(presses, heldButtons[b])
    /\ heldButtons' = [heldButtons EXCEPT ![b] = 0]
    /\ UNCHANGED << app, button, pc, call, result, reads, server >>

\* releaseAll(app)
ReleaseAll ==
    /\ presses' = AllAborted(presses, heldButtons)
    /\ heldButtons' = NoneHeld
    /\ UNCHANGED << app, button, pc, call, result, reads, server >>

\* The fetch of press i settles: ok tells whether a non-empty response
\* arrived (app.showOutput, which releases all buttons, is called for it
\* when showOutput is set), late whether TIME_FEEDBACK has already passed
FetchSettles(i, ok, late, f) ==
    /\ presses[i].phase = "fetching"
    /\ LET shown == ok /\ Truthy(f.props["showOutput"])
           ps == IF shown THEN AllAborted(presses, heldButtons) ELSE presses
       IN  /\ presses' = IF late THEN Schedule(ps, i, f)
                         ELSE [ps EXCEPT ![i].phase = "feedback"]
           /\ heldButtons' = IF shown THEN NoneHeld ELSE heldButtons
    /\ UNCHANGED << app, button, pc, call, result, reads, server >>

\* await wait(timeWait) ends
FeedbackElapsed(i, f) ==
    /\ presses[i].phase = "feedback"
    /\ presses' = Schedule(presses, i, f)
    /\ UNCHANGED << app, button, pc, call, result, reads, heldButtons, server >>

\* The repeat timer of press i fires
TimerFires(i, f) ==
    /\ presses[i].phase = "timer"
    /\ TimerRuns(presses[i]) => presses[i].requests < MaxRequests
    /\ presses' =
         IF TimerRuns(presses[i])
         THEN [presses EXCEPT
                 ![i].isRepeat = TRUE,
                 ![i].phase = RunStart(f),
                 ![i].requests =
                     IF RunStart(f) = "fetching" THEN @ + 1 ELSE @]
         ELSE [presses EXCEPT ![i].phase = "done"]
    /\ UNCHANGED << app, button, pc, call, result, reads, heldButtons, server >>

NextHold ==
    \/ \E b \in HoldIds : OnPress(b, reads[b])
    \/ \E b \in HoldIds : OnBlocked(b, reads[b])
    \/ \E b \in HoldIds : OnRelease(b)
    \/ ReleaseAll
    \/ \E i \in 1..Len(presses), ok \in BOOLEAN, late \in BOOLEAN :
          FetchSettles(i, ok, late, reads[presses[i].button])
    \/ \E i \in 1..Len(presses) :
          FeedbackElapsed(i, reads[presses[i].button])
    \/ \E i \in 1..Len(presses) : TimerFires(i, reads[presses[i].button])

SpecHold == InitHold /\ [][NextHold]_vars

\* ------------------------------------------------------ cyclic `is` chains
\* Configurations whose templates name each other: T1 is T2 and T2 is T1.
\* The button is T1.  No record defines the key x or the properties
\* "command" and "request"; T2 alone defines z and "proxyUrl", T1 alone
\* "repeat"; the fallback map of GlobalsPool defines x.
CycleButtons ==
    { Button("T1", << >>, << >>, << >>),
      Button("T1", ("showOutput" :> Bool(FALSE)),
             (ky :> (<<"[">> \o Tok(kz) \o <<"]">>)), << <<"b", "0">> >>) }

CycleT2Sets == { (kz :> <<"Z">>), (kz :> (<<"z">> \o Tok(kx))) }

InitCycle ==
    /\ \E b \in CycleButtons, st \in CycleT2Sets, g \in GlobalsPool :
         /\ button = b
         /\ app = App(("T1" :> Button("T2", ("repeat" :> Num(500)), << >>,
                                      << >>))
                          @@ ("T2" :> Button("T1",
                                             ("proxyUrl" :> Str(<<"t", "2">>)),
                                             st, << >>)),
                      g)
    /\ pc = "idle"
    /\ call = NoCall
    /\ result = NoResult
    /\ heldButtons = NoneHeld
    /\ presses = << >>
    /\ reads = << >>
    /\ tasks = << >>
    /\ requests = << >>
    /\ now = 0

SpecCycle == InitCycle /\ [][Next]_vars


\* ----------------------------------------------------------- type verifier
\* The runtime type checkers of src/unnamed/part_001 (TvError, isIn,
\* isConstant, isNumber, isString, isOneOf) and the object checkers the
\* repository's tests build from them.  A value is [t, s, f]: its kind, the
\* characters of String(value), and for an object its members.
\* The grave accent character of the error messages
Grave == "grave"

VPrim(t, s) == [t |-> t, s |-> s, f |-> << >>]
VUndefined ==
    VPrim("undefined", <<"u", "n", "d", "e", "f", "i", "n", "e", "d">>)
VNull == VPrim("null", <<"n", "u", "l", "l">>)
VObj(f) ==
    [t |-> "object",
     s |-> <<"[", "o", "b", "j", "e", "c", "t", " ",
             "O", "b", "j", "e", "c", "t", "]">>,
     f |-> f]

\* typeof value, as text
TypeOfText(v) ==
    CASE v.t = "number" -> <<"n", "u", "m", "b", "e", "r">>
      [] v.t = "string" -> <<"s", "t", "r", "i", "n", "g">>
      [] v.t = "boolean" -> <<"b", "o", "o", "l", "e", "a", "n">>
      [] v.t = "undefined" -> <<"u", "n", "d", "e", "f", "i", "n", "e", "d">>
      [] OTHER -> <<"o", "b", "j", "e", "c", "t">>

\* A context { key, value }; the key may be absent
Context(hasKey, key, value) ==
    [hasKey |-> hasKey, key |-> key, value |-> value]

\* context.key ?? ''
KeyOf(c) == IF c.hasKey THEN c.key ELSE << >>

\* The message of a TvError
TvMessage(key, expected, observed) ==
    <<"A", "t", " ", "k", "e", "y", "-", "p", "a", "t", "h", " ", Grave>>
        \o key
        \o <<Grave, ",", " ", "e", "x", "p", "e", "c", "t", "e", "d", " ", Grave>>
        \o expected
        \o <<Grave, " ", "b", "u", "t", " ", "w", "a", "s", " ",
             "g", "i", "v", "e", "n", " ", Grave>>
        \o TypeOfText(observed) \o <<Grave, " ", "(">> \o observed.s \o <<")", ".">>

\* new TvError(context, expected)
TvError(c, expected) ==
    [key |-> KeyOf(c), expected |-> expected, observed |-> c.value,
     message |-> TvMessage(KeyOf(c), expected, c.value)]

NoTvError ==
    [key |-> << >>, expected |-> << >>, observed |-> VUndefined,
     message |-> << >>]

\* What a checker call ends in: a returned value or a thrown TvError
Accept(v) == [ok |-> TRUE, v |-> v, e |-> NoTvError]
Reject(e) == [ok |-> FALSE, v |-> VUndefined, e |-> e]

\* isIn(c, key) for a string key: the sub-context, or a thrown TvError
IsIn(c, key) ==
    IF c.value.t # "object"
    THEN Reject(TvError(c, <<"o", "b", "j", "e", "c", "t">>))
    ELSE Accept(Context(TRUE,
                        KeyOf(c) \o (IF KeyOf(c) # << >> THEN <<".">> ELSE << >>)
                            \o key,
                        IF key \in DOMAIN c.value.f THEN c.value.f[key]
                        ELSE VUndefined))

\* Checkers: isNumber, isString, isConstant(x), an object checker
\* c => ({ type: isConstant(x)(isIn(c, 'type')), x: fn(isIn(c, 'x')) })
\* and isOneOf(...list)
Checker(kind, x, list) == [kind |-> kind, x |-> x, list |-> list]
isNumber == Checker("number", VUndefined, << >>)
isString == Checker("string", VUndefined, << >>)
isNull == Checker("constant", VNull, << >>)
isUndefined == Checker("constant", VUndefined, << >>)
isTestA == Checker("object", VPrim("string", <<"a">>), << isNumber >>)
isTestB == Checker("object", VPrim("string", <<"b">>), << isNumber >>)
isTestC == Checker("object", VPrim("string", <<"c">>), << isString >>)
isNumberString == Checker("oneOf", VUndefined, << isNumber, isString >>)

kType == <<"t", "y", "p", "e">>
kX == <<"x">>
Separator == <<" ", "|", " ">>

\* types.join(' | ')
RECURSIVE Join(_)
Join(types) ==
    IF types = << >> THEN << >>
    ELSE IF Len(types) = 1 THEN types[1]
    ELSE types[1] \o Separator \o Join(Tail(types))

\* Variant: every rejection contributes its bare expectation
Contribution_Bare(c, e) == e.expected

\* isSameKey ? e.expected : `[${e.message}]`
Contribution(c, e) ==
    IF KeyOf(c) = e.key THEN e.expected
    ELSE <<"[">> \o e.message \o <<"]">>

RECURSIVE Check(_, _)
RECURSIVE OneOfFrom(_, _, _, _)

\* The loop of isOneOf from checker i on, with the expectations collected
\* so far
OneOfFrom(list, i, c, types) ==
    IF i > Len(list) THEN Reject(TvError(c, Join(types)))
    ELSE LET r == Check(list[i], c)
         IN  IF r.ok THEN r
             ELSE OneOfFrom(list, i + 1, c,
                            Append(types, Contribution(c, r.e)))

\* fn(c)
Check(fn, c) ==
    CASE fn.kind = "number" ->
           IF c.value.t # "number"
           THEN Reject(TvError(c, <<"n", "u", "m", "b", "e", "r">>))
           ELSE Accept(c.value)
      [] fn.kind = "string" ->
           IF c.value.t # "string"
           THEN Reject(TvError(c, <<"s", "t", "r", "i", "n", "g">>))
           ELSE Accept(c.value)
      [] fn.kind = "constant" ->
           IF c.value # fn.x THEN Reject(TvError(c, fn.x.s))
           ELSE Accept(c.value)
      [] fn.kind = "object" ->
           LET inType == IsIn(c, kType)
               type == Check(Checker("constant", fn.x, << >>), inType.v)
               x == Check(fn.list[1], IsIn(c, kX).v)
           IN  IF ~inType.ok THEN inType
               ELSE IF ~type.ok THEN type
               ELSE IF ~x.ok THEN x
               ELSE Accept(VObj((kType :> type.v) @@ (kX :> x.v)))
      [] OTHER -> OneOfFrom(fn.list, 1, c, << >>)

\* isOneOf(...list)(c)
IsOneOf(list, c) == Check(Checker("oneOf", VUndefined, list), c)

\* The number of checkers handed to one isOneOf
MaxCheckers == 3

\* The checkers and the values of the calls
CheckerPool ==
    {isNumber, isString, isNull, isUndefined, isTestA, isTestB, isTestC,
     isNumberString}

RECURSIVE ListsOf(_)
ListsOf(n) ==
    IF n = 0 THEN {<< >>}
    ELSE ListsOf(n - 1)
         \cup {Append(l, f) : l \in {m \in ListsOf(n - 1) : Len(m) = n - 1},
                              f \in CheckerPool}

ValuePool ==
    { VPrim("number", <<"5">>), VPrim("string", <<"x">>),
      VPrim("boolean", <<"t", "r", "u", "e">>), VNull, VUndefined,
      VObj((kType :> VPrim("string", <<"c">>))
               @@ (kX :> VPrim("string", <<"h", "e", "l", "l", "o">>))),
      VObj((kType :> VPrim("string", <<"c">>))
               @@ (kX :> VPrim("number", <<"5">>))),
      VObj((kType :> VPrim("string", <<"a">>))
               @@ (kX :> VPrim("number", <<"5">>))
               @@ (<<"y">> :> VPrim("number", <<"1">>))),
      VObj((kType :> VPrim("string", <<"b">>))
               @@ (kX :> VPrim("string", <<"x">>))),
      VObj((kX :> VPrim("number", <<"5">>))) }

ContextPool ==
    {Context(FALSE, << >>, v) : v \in ValuePool}
        \cup {Context(TRUE, <<"v">>, v) : v \in ValuePool}

InitVerify ==
    /\ app = App(<< >>, GlobalsUndefined)
    /\ button = NullButton
    /\ pc = "idle"
    /\ call = NoCall
    /\ result = NoResult
    /\ heldButtons = NoneHeld
    /\ presses = << >>
    /\ reads = << >>
    /\ tasks = << >>
    /\ requests = << >>
    /\ now = 0

\* isOneOf(...list)(c)
CallIsOneOf(list, c) ==
    /\ call' = [op |-> "isOneOf", list |-> list, c |-> c]
    /\ result' = IsOneOf(list, c)
    /\ pc' = "returned"
    /\ UNCHANGED << app, button, heldButtons, presses, reads, server >>

NextVerify ==
    \/ /\ pc = "idle"
       /\ \E list \in ListsOf(MaxCheckers), c \in ContextPool :
             CallIsOneOf(list, c)
    \/ Return

SpecVerify == InitVerify /\ [][NextVerify]_vars


\* ------------------------------------------------------------- the server
\* The `do=run` branch of requestListener (src/qsp.js) with getNewCommandId,
\* removeOldTasks, expandArgument and run.  Every await of the handler ends
\* an action: what runs between two awaits runs without interruption, and
\* the continuation of a settled promise runs right after the event that
\* settled it.  Modelling restrictions: no command has a `cwd`; the values
\* handed to ${relativePath:key} are plain names; error messages are left
\* out of the responses; a process ends with exit code 0.

\* The number of run requests of one run of the model
MaxRunRequests == 2

\* The number of output chunks one process writes
MaxOutput == 1

\* The latest time of the clock, in days
MaxTime == 8

\* taskExpiryTime = dayInMs * 7, in days
TaskExpiryDays == 7

\* The values randomBytes(16).toString('hex') is drawn from
Ids == 1..MaxRunRequests

\* The steps the clock advances by: to the expiry time and just past it
TickSteps == {TaskExpiryDays, TaskExpiryDays + 1}

kb == <<"b">>
kd == <<"d">>
FnRelativePath == <<"r", "e", "l", "a", "t", "i", "v", "e", "P", "a", "t", "h">>

\* process.cwd()
Cwd == <<"/", "s", "r", "v">>

\* A number or null (timeEnd, code)
NullNumber == [nil |-> TRUE, n |-> 0]
Number(n) == [nil |-> FALSE, n |-> n]

\* The configuration: `values` is listed or undefined
ArgumentSchema(key, listed, values) ==
    [key |-> key, listed |-> listed, values |-> values]

Command(name, arguments, runner) ==
    [name |-> name, arguments |-> arguments, runner |-> runner]

Commands ==
    << Command("ls",
               << ArgumentSchema(ka, TRUE, << <<"-", "l">>, <<"-", "a">> >>),
                  ArgumentSchema(kd, FALSE, << >>) >>,
               << <<"l", "s">>, Tok(ka), <<"x">> \o Tok(ka) \o Tok(kd),
                  Esc(1, ka), TokFn(FnRelativePath, kd) >>),
       Command("dyn",
               << ArgumentSchema(ka, TRUE, << <<"-", "a">> >>) >>,
               << Tok(kb), Tok(ka) >>) >>

\* A request body: text that is not JSON ("garbage"), JSON that is not a
\* CommandRequest ("wrong"), or a CommandRequest
Body(kind, name, arguments, isPersisted) ==
    [kind |-> kind, name |-> name, arguments |-> arguments,
     isPersisted |-> isPersisted]

Bodies ==
    { Body("garbage", "", << >>, Null),
      Body("wrong", "ls", << >>, Null),
      Body("request", "nope", << >>, Null),
      Body("request", "dyn", (ka :> <<"-", "l">>), Null),
      Body("request", "ls", (ka :> <<"-", "a">>) @@ (kd :> <<"x">>), Null),
      Body("request", "ls", (ka :> <<"-", "r", "f">>) @@ (kd :> <<"x">>),
           Bool(TRUE)),
      Body("request", "ls", (kd :> <<"d", "o", "c", "s">>), Bool(FALSE)),
      Body("request", "dyn",
           (kb :> <<"e", "c", "h", "o">>) @@ (ka :> <<"-", "l">>),
           Bool(TRUE)) }

\* doTry(() => isCommandRequest({ value: JSON.parse(bodyText) })).value
IsCommandRequest(body) == body.kind = "request"

\* request.arguments
ArgsOf(body) == [k \in DOMAIN body.arguments |-> Str(body.arguments[k])]

\* config.commands?.find(x => x.name === request.name): its index, or 0
FindCommand(name) ==
    IF \E i \in 1..Len(Commands) : Commands[i].name = name
    THEN CHOOSE i \in 1..Len(Commands) :
            /\ Commands[i].name = name
            /\ \A j \in 1..(i - 1) : Commands[j].name # name
    ELSE 0

\* spec.values.find(x => x === value) ?? spec.values[0]
ListedValue(spec, value) ==
    IF IsString(value)
       /\ \E i \in 1..Len(spec.values) : spec.values[i] = value.s
    THEN value
    ELSE IF spec.values # << >> THEN Str(spec.values[1])
    ELSE Null

\* Variant: the request's arguments are used as they came
Constrain_None(specs, args) == args

\* The loop `for (const spec of command?.arguments ?? [])`
RECURSIVE Constrain(_, _)
Constrain(specs, args) ==
    IF specs = << >> THEN args
    ELSE LET spec == Head(specs)
             value == IF spec.key \in DOMAIN args THEN args[spec.key]
                      ELSE Null
         IN  Constrain(Tail(specs),
                       (spec.key :> (IF spec.listed
                                     THEN ListedValue(spec, value)
                                     ELSE value)) @@ args)

\* The replaceAll callback of expandArgument for one match
ArgumentValue(m, args) ==
    LET value == IF m.key \in DOMAIN args /\ IsString(args[m.key])
                 THEN args[m.key].s ELSE << >>
    IN  IF m.slash # << >> THEN Peel(m.slash, m.body)
        ELSE IF m.hasFn /\ m.fn = FnRelativePath
        THEN Cwd \o <<"/">> \o value
        ELSE value

\* expandArgument(text, args) from position i on
RECURSIVE ExpandArgumentFrom(_, _, _)
ExpandArgumentFrom(t, i, args) ==
    IF i > Len(t) THEN << >>
    ELSE IF ~MatchAt(t, i).ok
    THEN << t[i] >> \o ExpandArgumentFrom(t, i + 1, args)
    ELSE ArgumentValue(MatchAt(t, i), args)
             \o ExpandArgumentFrom(t, MatchAt(t, i).end + 1, args)

ExpandArgument(text, args) == ExpandArgumentFrom(text, 1, args)

\* Variant: a runner without a binary name is run all the same
BinMissing_Never(cliArgs) == FALSE

\* cliName = cliArgs.shift(); !cliName
BinMissing(cliArgs) == cliArgs = << >> \/ cliArgs[1] = << >>

\* Variant: the handler never waits for the process
AwaitsRun_Never(isPersisted) == FALSE

\* if (!isPersisted) await runResult
AwaitsRun(isPersisted) == ~Truthy(isPersisted)

\* makeTaskResults()
MakeTaskResults ==
    [out |-> << >>, error |-> << >>, timeStart |-> now,
     timeEnd |-> NullNumber, code |-> NullNumber]

NoResults ==
    [out |-> << >>, error |-> << >>, timeStart |-> 0,
     timeEnd |-> NullNumber, code |-> NullNumber]

\* The responses: none yet, respondJson(res, 200, info) with the task as
\* JSON.stringify sees it at that moment, respondJsonError(res, type, ..)
NoResponse == [status |-> 0, type |-> "", pid |-> 0, results |-> NoResults]

RespondJson(pid, results) ==
    [status |-> 200, type |-> "", pid |-> pid, results |-> results]

RespondJsonError(type) ==
    [status |-> 500, type |-> type, pid |-> 0, results |-> NoResults]

\* What the handler computes from a body before it stores anything: the
\* error it answers with ("" if none), the constrained arguments and the
\* command line
Prepared(body) ==
    LET c == FindCommand(body.name)
        args == Constrain(Commands[c].arguments, ArgsOf(body))
        cliArgs == [i \in 1..Len(Commands[c].runner) |->
                      ExpandArgument(Commands[c].runner[i], args)]
    IN  IF ~IsCommandRequest(body)
        THEN [error |-> "command-json", args |-> << >>, cli |-> << >>]
        ELSE IF c = 0
        THEN [error |-> "command-name", args |-> << >>, cli |-> << >>]
        ELSE IF BinMissing(cliArgs)
        THEN [error |-> "command-bin", args |-> << >>, cli |-> << >>]
        ELSE [error |-> "", args |-> args, cli |-> cliArgs]

\* removeOldTasks(): the task map without the tasks that ended more than
\* taskExpiryTime ago; rs holds the task objects
Expired(timeEnd) ==
    (IF ~timeEnd.nil THEN now - timeEnd.n ELSE 0) > TaskExpiryDays

RemoveOldTasks(ts, rs) ==
    [id \in {i \in DOMAIN ts : ~Expired(rs[ts[i]].results.timeEnd)} |->
        ts[id]]

InitServer ==
    /\ app = App(<< >>, GlobalsUndefined)
    /\ button = NullButton
    /\ pc = "idle"
    /\ call = NoCall
    /\ result = NoResult
    /\ heldButtons = NoneHeld
    /\ presses = << >>
    /\ reads = << >>
    /\ tasks = << >>
    /\ requests = << >>
    /\ now = 0

\* A POST ?do=run arrives: getNewCommandId() draws an id that is not in the
\* task map, then the handler waits for the body
Arrive(body, id) ==
    /\ Len(requests) < MaxRunRequests
    /\ id \notin DOMAIN tasks
    /\ requests' = Append(requests,
                          [body |-> body, pid |-> id, phase |-> "reading",
                           args |-> << >>, cli |-> << >>, proc |-> "none",
                           results |-> NoResults, response |-> NoResponse])
    /\ UNCHANGED << tasks, now, client >>

\* The body has been read: the handler runs on to its next await or to its
\* end.  spawns tells whether ncp.spawn returns a process or throws.
BodyRead(r, spawns) ==
    /\ requests[r].phase = "reading"
    /\ LET req == requests[r]
           p == Prepared(req.body)
           waits == AwaitsRun(req.body.isPersisted) /\ spawns
           info == [req EXCEPT
                      !.args = p.args, !.cli = p.cli,
                      !.results = MakeTaskResults,
                      !.proc = IF spawns THEN "running" ELSE "threw",
                      !.phase = IF waits THEN "awaiting" ELSE "responded",
                      !.response = IF waits THEN NoResponse
                                   ELSE RespondJson(req.pid, MakeTaskResults)]
       IN  IF p.error # ""
           THEN /\ requests' = [requests EXCEPT
                                  ![r].phase = "rejected",
                                  ![r].response = RespondJsonError(p.error)]
                /\ tasks' = tasks
           ELSE /\ requests' = [requests EXCEPT ![r] = info]
                /\ tasks' = RemoveOldTasks((req.pid :> r) @@ tasks, requests')
    /\ UNCHANGED << now, client >>

\* spawned.stdout.on('data'): the process of request r writes a chunk
ProcOutput(r) ==
    /\ requests[r].proc = "running"
    /\ Len(requests[r].results.out) < MaxOutput
    /\ requests' = [requests EXCEPT ![r].results.out = Append(@, "o")]
    /\ UNCHANGED << tasks, now, client >>

\* The promise of run settles while the handler waits for it: the handler
\* resumes and responds with the task as it is then
Resumed(rs, r) ==
    IF rs[r].phase = "awaiting"
    THEN [rs EXCEPT ![r].phase = "responded",
                    ![r].response = RespondJson(rs[r].pid, rs[r].results)]
    ELSE rs

\* spawned.on('error'): the process could not be started; run resolves
\* with null
ProcError(r) ==
    /\ requests[r].proc = "running"
    /\ requests[r].results.out = << >>
    /\ requests' = Resumed([requests EXCEPT ![r].proc = "error"], r)
    /\ UNCHANGED << tasks, now, client >>

\* spawned.on('close'), which may also follow an 'error'
ProcClose(r) ==
    /\ requests[r].proc \in {"running", "error"}
    /\ requests' =
         Resumed([requests EXCEPT
                    ![r].proc = IF @ = "running" THEN "closed"
                                ELSE "errorClosed",
                    ![r].results.code = Number(0),
                    ![r].results.timeEnd = Number(now)], r)
    /\ UNCHANGED << tasks, now, client >>

\* Time passes
Tick(d) ==
    /\ now + d <= MaxTime
    /\ now' = now + d
    /\ UNCHANGED << tasks, requests, client >>

NextServer ==
    \/ \E body \in Bodies, id \in Ids : Arrive(body, id)
    \/ \E r \in 1..Len(requests), spawns \in BOOLEAN : BodyRead(r, spawns)
    \/ \E r \in 1..Len(requests) : ProcOutput(r)
    \/ \E r \in 1..Len(requests) : ProcError(r)
    \/ \E r \in 1..Len(requests) : ProcClose(r)
    \/ \E d \in TickSteps : Tick(d)

SpecServer == InitServer /\ [][NextServer]_vars



\* =========================================================== verification
\* Reference definitions the claims are stated with.  They walk the `is`
\* chain as a list and do not use Lookup.

\* Number of records an acyclic chain of this model can hold
ChainMax == Cardinality(DOMAIN app.templates) + 1

\* The record a call is made on followed by its ancestors, nearest first
RECURSIVE ChainFrom(_, _)
ChainFrom(rec, n) ==
    IF rec.nil \/ n = 0 THEN << >>
    ELSE << rec >> \o
         ChainFrom(IF rec.is \in DOMAIN app.templates
                   THEN app.templates[rec.is] ELSE NullButton, n - 1)

Chain(on) == ChainFrom(Target(on), ChainMax)

Min(S) == CHOOSE m \in S : \A o \in S : m <= o

\* Does the record itself define property p / set key w / setList index n
DefinesProp(rec, p) == p \in DOMAIN rec.props /\ rec.props[p].t # "null"
DefinesKey(rec, w) == w \in DOMAIN rec.set
DefinesIndex(rec, n) == n < Len(rec.setList)

\* Positions in the chain that define the requested property or key
PropDefiners(on, p) ==
    {i \in 1..Len(Chain(on)) : DefinesProp(Chain(on)[i], p)}

KeyDefiners(on, k) ==
    {i \in 1..Len(Chain(on)) :
        IF k.t = "number" THEN DefinesIndex(Chain(on)[i], k.n)
        ELSE DefinesKey(Chain(on)[i], k.s)}

NearestProp(on, p) == Chain(on)[Min(PropDefiners(on, p))].props[p]

NearestKey(on, k) ==
    LET rec == Chain(on)[Min(KeyDefiners(on, k))]
    IN  Str(IF k.t = "number" THEN rec.setList[k.n + 1] ELSE rec.set[k.s])

InFallback(k) == app.setGlobals.def /\ k.s \in DOMAIN app.setGlobals.map

\* What a value is returned as: a string goes through expand in the context
\* of the record the call was made on, unless the call is an internal lookup
Returned(on, value, setKey, isLookup) ==
    IF isLookup \/ ~IsString(value) THEN value
    ELSE Expand(app, Target(on), value.s, FreshSeen(setKey), 1).v

Returned_lookup == pc = "returned" /\ call.op = "lookup"
Returned_expand == pc = "returned" /\ call.op = "expand"

\* The text of an expand call is exactly one token
OneToken(text) == MatchAt(text, 1).ok /\ MatchAt(text, 1).end = Len(text)

SeenKeys(seen) == IF seen.def THEN seen.keys ELSE {}

\* ------------------------------------------------------------------- C1
\* C1: in property mode, a property that is null/undefined on the record
\* the lookup is made on is taken from the nearest record along the `is`
\* chain that defines it, over any number of levels; the value is returned
\* as stored by an internal lookup and for a non-string, and expanded in
\* the context of the requesting record otherwise.
C1_NearestPropertyWins ==
    (/\ Returned_lookup
     /\ call.key # NullKey
     /\ call.on # "null"
     /\ ~DefinesProp(Target(call.on), call.key)
     /\ PropDefiners(call.on, call.key) # {})
    => result.v = Returned(call.on, NearestProp(call.on, call.key), KNull,
                           call.isLookup)

\* A property found two levels up: neither the button nor T1 defines it
C1_Witness ==
    /\ Returned_lookup
    /\ call.on = "button"
    /\ call.key = "repeat"
    /\ PropDefiners("button", "repeat") = {3}
    /\ result.v = Num(0)

\* ------------------------------------------------------------------- C2
\* C2: `set` keys are inherited per key: a lookup of a string key k yields
\* the record's own set[k] when it defines k, otherwise the value of k from
\* the nearest ancestor on the `is` chain whose `set` defines k.
C2_SetKeysInheritedPerKey ==
    (/\ Returned_lookup
     /\ call.setKey.t = "string"
     /\ call.on # "null"
     /\ KeyDefiners(call.on, call.setKey) # {})
    => result.v = Returned(call.on, NearestKey(call.on, call.setKey),
                           call.setKey, call.isLookup)

\* The button defines x but not y, its template defines both: y comes from
\* the template although the button has a `set` of its own
C2_Witness ==
    /\ Returned_lookup
    /\ call.on = "button"
    /\ call.setKey = KStr(ky)
    /\ call.isLookup
    /\ DefinesKey(button, kx) /\ ~DefinesKey(button, ky)
    /\ DefinesKey(app.templates["T1"], kx)
    /\ DefinesKey(app.templates["T1"], ky)
    /\ button.is = "T1"
    /\ result.v = Str(app.templates["T1"].set[ky])


\* ------------------------------------------------------------------- C3
\* C3: in set-list mode a numeric index yields the record's own setList
\* entry when the index is in range, otherwise the entry of the nearest
\* ancestor whose setList has the index, otherwise the value the global
\* fallback map holds under the stringified index, and otherwise null.
C3_SetListLookup ==
    (/\ Returned_lookup
     /\ call.setKey.t = "number"
     /\ call.on # "null")
    => result.v =
         IF KeyDefiners(call.on, call.setKey) # {}
         THEN Returned(call.on, NearestKey(call.on, call.setKey),
                       call.setKey, call.isLookup)
         ELSE IF InFallback(call.setKey)
         THEN Returned(call.on, Str(app.setGlobals.map[call.setKey.s]),
                       call.setKey, call.isLookup)
         ELSE Null

\* ------------------------------------------------------------------- C4
\* The matches of the token grammar in a text, left to right
RECURSIVE Tokens(_, _)
Tokens(t, i) ==
    IF i > Len(t) THEN << >>
    ELSE IF MatchAt(t, i).ok
    THEN << MatchAt(t, i) >> \o Tokens(t, MatchAt(t, i).end + 1)
    ELSE Tokens(t, i + 1)

AllTokensVisited(text, keys) ==
    /\ Tokens(text, 1) # << >>
    /\ \A i \in 1..Len(Tokens(text, 1)) :
          /\ Tokens(text, 1)[i].slash = << >>
          /\ TokenKey(Tokens(text, 1)[i].key) \in keys

SelfReference == <<"x">> \o Tok(kx) \o <<"x">>

\* C4: a non-escaped token whose key is in the visited-token set is emitted
\* verbatim and nothing is looked up for it (so expand returns the text
\* unchanged, also where a lookup of the key would throw); with
\* set = {x: "x${x}x"}, expanding "${x}" yields "x${x}x".
C4_VisitedTokenVerbatim ==
    /\ (/\ Returned_expand
        /\ call.pass = 1
        /\ AllTokensVisited(call.text, SeenKeys(call.seen)))
       => result.v = Str(call.text)
    /\ (/\ Returned_expand
        /\ call.pass = 1
        /\ call.text = Tok(kx)
        /\ ~call.seen.def
        /\ DefinesKey(button, kx)
        /\ button.set[kx] = SelfReference)
       => result.v = Str(SelfReference)

\* "${x}" expanded where x is "x${x}x"
C4_Witness ==
    /\ Returned_expand
    /\ call.pass = 1
    /\ call.text = Tok(kx)
    /\ ~call.seen.def
    /\ DefinesKey(button, kx)
    /\ button.set[kx] = SelfReference
    /\ result.v = Str(SelfReference)

C6_UnresolvedTokenLiteral ==
    (/\ Returned_expand
     /\ call.pass = 1
     /\ OneToken(call.text)
     /\ MatchAt(call.text, 1).slash = << >>
     /\ TokenKey(MatchAt(call.text, 1).key) \notin SeenKeys(call.seen)
     /\ KeyDefiners("button", TokenKey(MatchAt(call.text, 1).key)) = {}
     /\ ~InFallback(TokenKey(MatchAt(call.text, 1).key)))
    => result.v = Str(call.text)

\* ------------------------------------------------------------------- C7
\* C7: an escaped token is never expanded in a pass: each pass removes
\* exactly one backslash and keeps the body (with its transform prefix), so
\* after k <= N passes an N-times-escaped token has N - k backslashes, and
\* after N passes it is the literal ${body}.
C7_EscapePeeling ==
    (/\ Returned_expand
     /\ OneToken(call.text)
     /\ MatchAt(call.text, 1).slash # << >>
     /\ call.pass <= Len(MatchAt(call.text, 1).slash))
    => result.v = Str(Esc(Len(MatchAt(call.text, 1).slash) - call.pass,
                          MatchAt(call.text, 1).body))

\* A twice-or-more escaped token with a transform prefix, fully un-escaped
\* by as many passes, over a button that defines its key
C7_Witness ==
    /\ Returned_expand
    /\ call.pass >= 2
    /\ call.text = Esc(call.pass, FnUrlencode \o <<":">> \o kx)
    /\ DefinesKey(button, kx)
    /\ result.v = Str(TokFn(FnUrlencode, kx))


\* ------------------------------------------------------------------- C8
\* Is the value stored for a key free of tokens
PlainKey(k) ==
    /\ KeyDefiners("button", k) # {}
    /\ Tokens(NearestKey("button", k).s, 1) = << >>

NoEscapes(text) ==
    \A i \in 1..Len(Tokens(text, 1)) : Tokens(text, 1)[i].slash = << >>

\* C8: the value substituted for a token is itself expanded before it is
\* substituted, to any depth: expanding ${k} gives the expansion of the
\* value stored for k (with k added to the keys being resolved), and no
\* token of a key with a token-free value is left in the output unless its
\* key was handed in as already visited.
C8_ValuesExpandedRecursively ==
    /\ (/\ Returned_expand
        /\ call.pass = 1
        /\ OneToken(call.text)
        /\ MatchAt(call.text, 1).slash = << >>
        /\ ~MatchAt(call.text, 1).hasFn
        /\ TokenKey(MatchAt(call.text, 1).key) \notin SeenKeys(call.seen)
        /\ KeyDefiners("button", TokenKey(MatchAt(call.text, 1).key)) # {})
       => result.v =
            Expand(app, button,
                   NearestKey("button", TokenKey(MatchAt(call.text, 1).key)).s,
                   SeenSet(SeenKeys(call.seen)
                           \cup {TokenKey(MatchAt(call.text, 1).key)}),
                   2).v
    /\ (/\ Returned_expand
        /\ call.pass = 1
        /\ NoEscapes(call.text)
        /\ IsString(result.v))
       => \A i \in 1..Len(Tokens(result.v.s, 1)) :
             PlainKey(TokenKey(Tokens(result.v.s, 1)[i].key))
                 => TokenKey(Tokens(result.v.s, 1)[i].key)
                        \in SeenKeys(call.seen)

\* Three levels: ${x} -> "${y}-${0}", y (inherited) -> "y${x}${1}",
\* 1 (inherited setList) -> "t1"; the token of x inside y stays verbatim
C8_Witness ==
    /\ Returned_expand
    /\ call.pass = 1
    /\ call.text = Tok(kx)
    /\ ~call.seen.def
    /\ result.v = Str(<<"y">> \o Tok(kx) \o <<"t", "1", "-", "b", "0">>)

\* ------------------------------------------------------------------- C9
\* The fully expanded value of the key of the one token of an expand call
TokenValue ==
    Lookup(app, button, NullKey, TokenKey(MatchAt(call.text, 1).key), FALSE,
           SeenSet(SeenKeys(call.seen)
                   \cup {TokenKey(MatchAt(call.text, 1).key)}), 1).v

\* C9: for ${fn:key} whose key resolves to a truthy value v, urlencode
\* emits the percent-encoding of v (a"b gives a%22b), jsonString emits v as
\* a double-quoted, backslash-escaped string literal (a"b gives "a\"b"),
\* and any other function name emits v unmodified; v is the fully expanded
\* value.
C9_TransformFunctions ==
    (/\ Returned_expand
     /\ call.pass = 1
     /\ OneToken(call.text)
     /\ MatchAt(call.text, 1).slash = << >>
     /\ MatchAt(call.text, 1).hasFn
     /\ TokenKey(MatchAt(call.text, 1).key) \notin SeenKeys(call.seen)
     /\ IsString(TokenValue)
     /\ TokenValue.s # << >>)
    => /\ result.v =
            CASE MatchAt(call.text, 1).fn = FnUrlencode
                    -> Str(UrlEncode(TokenValue.s))
              [] MatchAt(call.text, 1).fn = FnJsonString
                    -> Str(JsonStringify(TokenValue.s))
              [] OTHER -> TokenValue
       /\ (TokenValue.s = <<"a", "\"", "b">>
             /\ MatchAt(call.text, 1).fn = FnUrlencode)
          => result.v = Str(<<"a", "%", "2", "2", "b">>)
       /\ (TokenValue.s = <<"a", "\"", "b">>
             /\ MatchAt(call.text, 1).fn = FnJsonString)
          => result.v = Str(<<"\"", "a", "\\", "\"", "b", "\"">>)
       /\ (TokenValue.s = <<"s", " ", "s">>
             /\ MatchAt(call.text, 1).fn = FnUrlencode)
          => result.v = Str(<<"s", "%", "2", "0", "s">>)

\* ${jsonString:y} where y is a"b
C9_Witness ==
    /\ Returned_expand
    /\ call.pass = 1
    /\ call.text = TokFn(FnJsonString, ky)
    /\ DefinesKey(button, ky)
    /\ button.set[ky] = <<"a", "\"", "b">>
    /\ result.v = Str(<<"\"", "a", "\\", "\"", "b", "\"">>)

\* ------------------------------------------------------------------ C10
\* The key a token word stands for: a number for an all-digit word
NumericWord(w) == w # << >> /\ \A i \in 1..Len(w) : w[i] \in Digits
WordKey(w) == IF NumericWord(w) THEN KNum(DecimalValue(w)) ELSE KStr(w)

\* The stored value a key resolves to: KeyDefiners reads `setList` only for
\* a number and `set` only for a string
StoredValue(on, k) ==
    IF KeyDefiners(on, k) # {} THEN NearestKey(on, k)
    ELSE IF ~app.setGlobals.def THEN TypeError
    ELSE IF InFallback(k) THEN Str(app.setGlobals.map[k.s])
    ELSE Null

\* C10: a token whose key parses as a number is resolved as a setList index
\* and never through the `set` map (${0} yields setList[0], own or
\* inherited, also when set["0"] is defined); a token whose key does not
\* parse as a number is resolved through `set` and never through setList.
C10_NumericKeysUseSetList ==
    /\ (/\ Returned_lookup
        /\ call.key = NullKey
        /\ call.on # "null"
        /\ call.isLookup)
       => result.v = StoredValue(call.on, call.setKey)
    /\ (/\ Returned_expand
        /\ call.pass = 1
        /\ OneToken(call.text)
        /\ MatchAt(call.text, 1).slash = << >>
        /\ ~MatchAt(call.text, 1).hasFn
        /\ WordKey(MatchAt(call.text, 1).key) \notin SeenKeys(call.seen)
        /\ KeyDefiners("button", WordKey(MatchAt(call.text, 1).key)) # {})
       => result.v =
            Expand(app, button,
                   NearestKey("button", WordKey(MatchAt(call.text, 1).key)).s,
                   SeenSet(SeenKeys(call.seen)
                           \cup {WordKey(MatchAt(call.text, 1).key)}),
                   2).v

\* ${0} over a button that has both set["0"] and setList[0]
C10_Witness ==
    /\ Returned_expand
    /\ call.pass = 1
    /\ call.text = Tok(k0)
    /\ ~call.seen.def
    /\ DefinesKey(button, k0)
    /\ button.setList = << <<"b", "0">> >>
    /\ result.v = Str(<<"b", "0">>)

\* ------------------------------------------------------------------ C11
\* C11 as stated: when the key of a non-escaped token resolves to a falsy
\* value (the empty string or null), expand emits the matched token text,
\* so that "[${y}]" stays "[${y}]" when y is the empty string.
C11_FalsyValueKeepsToken ==
    (/\ Returned_expand
     /\ call.pass = 1
     /\ OneToken(call.text)
     /\ MatchAt(call.text, 1).slash = << >>
     /\ TokenKey(MatchAt(call.text, 1).key) \notin SeenKeys(call.seen)
     /\ TokenValue \in {Str(<< >>), Null})
    => result.v = Str(call.text)

\* C11, amended: only a null value keeps the matched token text; when the
\* key resolves to the empty string expand emits the empty string, with or
\* without a transform prefix, so that "[${y}]" becomes "[]".
C11_EmptyValueEmitted ==
    /\ (/\ Returned_expand
        /\ call.pass = 1
        /\ OneToken(call.text)
        /\ MatchAt(call.text, 1).slash = << >>
        /\ TokenKey(MatchAt(call.text, 1).key) \notin SeenKeys(call.seen))
       => /\ TokenValue = Str(<< >>) => result.v = Str(<< >>)
          /\ TokenValue = Null => result.v = Str(call.text)
    /\ (/\ Returned_expand
        /\ call.pass = 1
        /\ call.text = <<"[">> \o Tok(ky) \o <<"]">>
        /\ StoredValue("button", KStr(ky)) = Str(<< >>))
       => result.v = Str(<<"[", "]">>)

\* "[${y}]" over a button that inherits y = "" from the second template
C11_Witness ==
    /\ Returned_expand
    /\ call.pass = 1
    /\ call.text = <<"[">> \o Tok(ky) \o <<"]">>
    /\ KeyDefiners("button", KStr(ky)) = {3}
    /\ NearestKey("button", KStr(ky)) = Str(<< >>)
    /\ result.v = Str(<<"[", "]">>)

\* ------------------------------------------------------------------ C12
\* The call is a property lookup on a record that lacks the property while
\* the template its `is` names defines it
InheritsFromParent ==
    /\ Returned_lookup
    /\ call.key # NullKey
    /\ call.on # "null"
    /\ Target(call.on).is \in DOMAIN app.templates
    /\ ~DefinesProp(Target(call.on), call.key)
    /\ DefinesProp(app.templates[Target(call.on).is], call.key)

\* The same lookup made on the template the record's `is` names
OnParent ==
    Lookup(app, app.templates[Target(call.on).is], call.key, KNull,
           call.isLookup, SeenUndefined, 0).v

\* The value the parent template stores for the property
ParentStored == app.templates[Target(call.on).is].props[call.key]

\* Does a text hold a token that is not escaped
HasLiveToken(text) ==
    \E i \in 1..Len(Tokens(text, 1)) : Tokens(text, 1)[i].slash = << >>

\* C12 as stated: for B with B.is = T and a property p absent on B and
\* present on T, lookup(B, p) equals lookup(T, p) for every kind of value,
\* strings with tokens included, whatever B.set/B.setList and
\* T.set/T.setList hold.
C12_SameAsTemplate ==
    InheritsFromParent => result.v = OnParent

\* C12, amended: lookup(B, p) is the value T stores for p, raw in an
\* internal lookup and for a non-string, and expanded with B as the context
\* otherwise; it equals lookup(T, p) in an internal lookup, for a
\* non-string value and for a string without unescaped tokens.
C12_TemplateValueInOwnContext ==
    InheritsFromParent =>
        /\ result.v = Returned(call.on, ParentStored, KNull, call.isLookup)
        /\ (\/ call.isLookup
            \/ ~IsString(ParentStored)
            \/ ~HasLiveToken(ParentStored.s)) => result.v = OnParent

\* The button inherits "${0}${z}" from T1; its own setList supplies ${0}
\* as "b0" where T1's setList supplies "t${y}" expanded
C12_Witness ==
    /\ InheritsFromParent
    /\ call.on = "button"
    /\ ~call.isLookup
    /\ ParentStored = Str(Tok(k0) \o Tok(kz))
    /\ IsString(result.v)
    /\ IsString(OnParent)
    /\ Sub(result.v.s, 1, 2) = <<"b", "0">>
    /\ result.v # OnParent

\* ------------------------------------------------------------------ C13
\* The application with property p removed from every template but `keep`
Stripped(p, keep) ==
    [app EXCEPT !.templates =
        [n \in DOMAIN app.templates |->
            IF n = keep THEN app.templates[n]
            ELSE [app.templates[n] EXCEPT !.props =
                    [q \in DOMAIN app.templates[n].props \ {p} |->
                        app.templates[n].props[q]]]]]

\* The call is a property lookup on a record that defines the property
OwnValueCall ==
    /\ Returned_lookup
    /\ call.key # NullKey
    /\ call.on # "null"
    /\ DefinesProp(Target(call.on), call.key)

\* C13: when a record has its own defined value for property p (false, 0
\* and the empty string included), lookup returns that value (expanded in
\* non-lookup mode when it is a string) and the `is` chain is not
\* consulted for p: the result is the same with p removed from every
\* template of the chain.
C13_OwnValueWins ==
    OwnValueCall =>
        /\ result.v = Returned(call.on, Target(call.on).props[call.key],
                               KNull, call.isLookup)
        /\ result.v = Lookup(Stripped(call.key, call.on), Target(call.on),
                             call.key, KNull, call.isLookup, SeenUndefined,
                             0).v
        /\ Target(call.on).props[call.key]
               \in {Bool(FALSE), Num(0), Str(<< >>)}
           => result.v = Target(call.on).props[call.key]

\* The button's own repeat of 0 is returned although T1 defines 500
C13_Witness ==
    /\ OwnValueCall
    /\ call.on = "button"
    /\ call.key = "repeat"
    /\ button.props["repeat"] = Num(0)
    /\ 2 \in PropDefiners("button", "repeat")
    /\ app.templates["T1"].props["repeat"] = Num(500)
    /\ result.v = Num(0)

\* ------------------------------------------------------------------ C14
\* C14: the fallback map is consulted only for set/setList lookups and
\* only after the whole `is` chain has failed to supply the key: a value
\* the chain defines wins over the map's value for the same key, the map's
\* value is used when the chain defines none, and a property lookup of a
\* property the chain does not define yields null, whatever the map holds
\* (one map of the pool has the key "repeat") and also without a map.
C14_FallbackLast ==
    /\ (/\ Returned_lookup
        /\ call.key = NullKey
        /\ call.on # "null"
        /\ KeyDefiners(call.on, call.setKey) # {})
       => result.v = Returned(call.on, NearestKey(call.on, call.setKey),
                              call.setKey, call.isLookup)
    /\ (/\ Returned_lookup
        /\ call.key = NullKey
        /\ call.on # "null"
        /\ KeyDefiners(call.on, call.setKey) = {}
        /\ InFallback(call.setKey))
       => result.v = Returned(call.on,
                              Str(app.setGlobals.map[call.setKey.s]),
                              call.setKey, call.isLookup)
    /\ (/\ Returned_lookup
        /\ call.key # NullKey
        /\ (call.on = "null" \/ PropDefiners(call.on, call.key) = {}))
       => result.v = Null
    /\ (/\ Returned_lookup
        /\ call.key = NullKey
        /\ call.on = "null")
       => result.v = Null

\* x is stored on the chain and in the fallback map: the chain's value is
\* returned
C14_Witness ==
    /\ Returned_lookup
    /\ call.on = "button"
    /\ call.setKey = KStr(kx)
    /\ call.isLookup
    /\ KeyDefiners("button", KStr(kx)) # {}
    /\ InFallback(KStr(kx))
    /\ app.setGlobals.map[kx] = <<"g", "x">>
    /\ result.v = NearestKey("button", KStr(kx))
    /\ result.v # Str(<<"g", "x">>)

\* ------------------------------------------------------------------ C15
\* C15: with the application object as the program constructs it, lookup
\* never throws, and it yields null on a null button, for a property
\* defined nowhere on the chain (a chain cut by a missing template
\* included) and for a set/setList key defined nowhere on the chain and
\* not in the fallback map.
C15_NeverThrowsNullWhenMissing ==
    (Returned_lookup /\ ~app.setGlobals.def) =>
        /\ ~IsThrow(result.v)
        /\ call.on = "null" => result.v = Null
        /\ (/\ call.key # NullKey
            /\ call.on # "null"
            /\ PropDefiners(call.on, call.key) = {}) => result.v = Null
        /\ (/\ call.key = NullKey
            /\ call.on # "null"
            /\ KeyDefiners(call.on, call.setKey) = {}
            /\ ~InFallback(call.setKey)) => result.v = Null

\* ------------------------------------------------------------------ C16
\* The value a lookup resolves to before any expansion, read off the chain
Resolved ==
    IF call.key # NullKey
    THEN IF PropDefiners(call.on, call.key) = {} THEN Null
         ELSE NearestProp(call.on, call.key)
    ELSE StoredValue(call.on, call.setKey)

HasEscape(text) ==
    \E i \in 1..Len(Tokens(text, 1)) : Tokens(text, 1)[i].slash # << >>

\* C16: a lookup in non-lookup mode whose resolved value is a string
\* returns that string passed through expand (so an escaped token in it
\* has lost a backslash); a lookup in internal-lookup mode returns the
\* stored value raw, tokens and escapes untouched; a non-string value is
\* returned as stored in both modes.
C16_ModeDecidesExpansion ==
    (Returned_lookup /\ call.on # "null") =>
        /\ call.isLookup => result.v = Resolved
        /\ ~IsString(Resolved) => result.v = Resolved
        /\ (~call.isLookup /\ IsString(Resolved)) =>
              /\ result.v = Expand(app, Target(call.on), Resolved.s,
                                   FreshSeen(call.setKey), 1).v
              /\ (IsString(result.v) /\ HasEscape(Resolved.s))
                    => result.v # Resolved

\* The button's proxyUrl "u:${x}$\{x}" comes back raw from an internal
\* lookup although x is defined
C16_Witness ==
    /\ Returned_lookup
    /\ call.on = "button"
    /\ call.key = "proxyUrl"
    /\ call.isLookup
    /\ DefinesProp(button, "proxyUrl")
    /\ KeyDefiners("button", KStr(kx)) # {}
    /\ result.v = Str(<<"u", ":">> \o Tok(kx) \o Esc(1, kx))

\* ------------------------------------------------------------------ C17
\* C17: expand is total: for every record, text and visited set it returns
\* a string and never throws, and a text without a match of the token
\* grammar ("${}", "${a-b}", "${a:b:c}", an unclosed "${a") is returned
\* unchanged.
C17_ExpandTotal ==
    Returned_expand =>
        /\ IsString(result.v)
        /\ (call.pass = 1 /\ Tokens(call.text, 1) = << >>)
              => result.v = Str(call.text)

C19_NoRequestAfterRelease ==
    [][\A i \in 1..Len(presses) :
         /\ presses[i].aborted =>
               /\ presses'[i].aborted
               /\ presses'[i].requests = presses[i].requests
               /\ presses'[i].waits = presses[i].waits
         /\ (/\ ~presses[i].aborted
             /\ presses'[i].aborted
             /\ presses[i].phase = "fetching"
             /\ ~presses[i].isRepeat) => presses'[i].requests = 1]_vars

\* One press was released before its first request completed and ended
\* with that one request; another was released while its timer was
\* pending, and the timer fired without a request
C19_Witness ==
    /\ \E i \in 1..Len(presses) :
          /\ presses[i].aborted
          /\ presses[i].phase = "done"
          /\ presses[i].requests = 1
          /\ presses[i].waits = << >>
    /\ \E j \in 1..Len(presses) :
          /\ presses[j].aborted
          /\ presses[j].phase = "done"
          /\ presses[j].waits # << >>
          /\ presses[j].requests = Len(presses[j].waits)

\* ------------------------------------------------------------------ C20
\* The waits of button b, read off the `is` chain
ExpectedLater(b) ==
    IF PropDefiners(b, "repeat") = {} THEN Num(RepeatDefault)
    ELSE NearestProp(b, "repeat")

ExpectedFirst(b) ==
    IF PropDefiners(b, "repeatInitial") = {} THEN ExpectedLater(b)
    ELSE NearestProp(b, "repeatInitial")

\* C20: the timer set before the first repetition of a held button waits
\* `repeatInitial` ms and the timer set before every later repetition
\* waits `repeat` ms, each resolved through inheritance; without
\* repeatInitial the first wait is `repeat`, without repeat a wait is
\* 1000 ms, and repeatInitial is used for the first repetition only.
C20_RepeatWaits ==
    \A i \in 1..Len(presses) :
        /\ \A k \in 1..Len(presses[i].waits) :
              presses[i].waits[k] =
                 IF k = 1 THEN ExpectedFirst(presses[i].button)
                 ELSE ExpectedLater(presses[i].button)
        /\ Len(presses[i].waits) <= presses[i].requests

\* The button has its own repeatInitial of 2000 and inherits repeat = 500
\* from T1: it waited 2000 ms, then 500 ms
C20_Witness ==
    \E i \in 1..Len(presses) :
        /\ presses[i].button = "button"
        /\ PropDefiners("button", "repeatInitial") = {1}
        /\ PropDefiners("button", "repeat") = {2}
        /\ presses[i].waits = << Num(2000), Num(500) >>

\* ------------------------------------------------------------------ C24
\* The call is a top-level lookup on the button of a set / setList key the
\* button lacks and an ancestor defines
InheritsKey ==
    /\ Returned_lookup
    /\ call.on = "button"
    /\ ~call.isLookup
    /\ call.setKey.t # "null"
    /\ KeyDefiners("button", call.setKey) # {}
    /\ Min(KeyDefiners("button", call.setKey)) > 1

\* The call is a top-level lookup on the button of a property the button
\* lacks and an ancestor defines as a string
InheritsText ==
    /\ Returned_lookup
    /\ call.on = "button"
    /\ ~call.isLookup
    /\ call.key # NullKey
    /\ PropDefiners("button", call.key) # {}
    /\ Min(PropDefiners("button", call.key)) > 1
    /\ IsString(NearestProp("button", call.key))

\* The value "t${y}" the templates store for x
InheritedX == <<"t">> \o Tok(ky)

\* The button itself defines key w with a value free of tokens
OwnPlain(w) == DefinesKey(button, w) /\ Tokens(button.set[w], 1) = << >>

\* C24: the tokens of a value the button inherits are resolved from the
\* button the lookup was called on: the result is the expansion of the
\* stored value with that button as the context, so for an inherited
\* "t${y}" the button's own y is substituted, whether the defining template
\* has a y of its own or none.
C24_TokensResolvedFromRequester ==
    /\ InheritsKey =>
          result.v = Expand(app, button, NearestKey("button", call.setKey).s,
                            SeenSet({call.setKey}), 1).v
    /\ InheritsText =>
          result.v = Expand(app, button, NearestProp("button", call.key).s,
                            SeenSet({KStr(<< >>)}), 1).v
    /\ (/\ InheritsKey
        /\ call.setKey = KStr(kx)
        /\ NearestKey("button", KStr(kx)) = Str(InheritedX)
        /\ OwnPlain(ky))
       => result.v = Str(<<"t">> \o button.set[ky])

\* x is inherited from T1 as "t${y}"; T1 has a y of its own ("y${x}${1}"),
\* the button's y is "a\"b": the button's y is the one substituted
C24_Witness ==
    /\ InheritsKey
    /\ call.setKey = KStr(kx)
    /\ Min(KeyDefiners("button", KStr(kx))) = 2
    /\ DefinesKey(app.templates["T1"], ky)
    /\ app.templates["T1"].set[ky] = <<"y">> \o Tok(kx) \o Tok(k1)
    /\ DefinesKey(button, ky)
    /\ button.set[ky] = <<"a", "\"", "b">>
    /\ result.v = Str(<<"t", "a", "\"", "b">>)

\* ------------------------------------------------------------------ C25
\* The call is an expand of exactly one plain token (not escaped, without
\* a transform, its key not handed in as visited) whose key a record of the
\* button's chain defines
ResolvesOneToken ==
    /\ Returned_expand
    /\ call.pass = 1
    /\ OneToken(call.text)
    /\ MatchAt(call.text, 1).slash = << >>
    /\ ~MatchAt(call.text, 1).hasFn
    /\ TokenKey(MatchAt(call.text, 1).key) \notin SeenKeys(call.seen)
    /\ KeyDefiners("button", TokenKey(MatchAt(call.text, 1).key)) # {}

\* The key of that token and the value stored for it
TheKey == TokenKey(MatchAt(call.text, 1).key)
RawValue == NearestKey("button", TheKey)

Siblings == <<"a">> \o Tok(kx) \o <<"b">> \o Tok(kx)

\* What expand makes of the single token ${x} under the visited set of the
\* call
OneX == Expand(app, button, Tok(kx), call.seen, 1).v

\* C26: a key is in the visited set only while its token is being
\* resolved: when expand returns, the set handed in holds exactly the keys
\* it held on entry, and a key that occurs in two sibling token positions
\* of one text is expanded at both, each occurrence as the single token
\* would be.
C26_VisitedSetRestored ==
    /\ (Returned_expand /\ ~IsThrow(result.v) /\ call.seen.def)
           => result.seen = call.seen
    /\ (/\ Returned_expand
        /\ call.pass = 1
        /\ call.text = Siblings
        /\ ~IsThrow(result.v))
       => /\ IsString(OneX)
          /\ result.v = Str(<<"a">> \o OneX.s \o <<"b">> \o OneX.s)

\* "a${x}b${x}" with x = "${y}-${0}", y = "s s", setList = ["b0"]: both
\* occurrences of ${x} are expanded
C26_Witness ==
    /\ Returned_expand
    /\ call.pass = 1
    /\ call.text = Siblings
    /\ ~call.seen.def
    /\ OneX = Str(<<"s", " ", "s", "-", "b", "0">>)
    /\ result.v = Str(<<"a", "s", " ", "s", "-", "b", "0",
                        "b", "s", " ", "s", "-", "b", "0">>)

\* ------------------------------------------------------------------ C27
\* The call is a top-level lookup (not internal, no visited set handed in)
\* on the button of a set / setList key that a record of its chain defines
TopLevelKey ==
    /\ Returned_lookup
    /\ call.on = "button"
    /\ ~call.isLookup
    /\ ~call.seen.def
    /\ call.setKey.t # "null"
    /\ KeyDefiners("button", call.setKey) # {}

\* y = "y${a}y" on the button and a = "a${y}a" inherited from T1
MutualY == <<"y">> \o Tok(ka) \o <<"y">>
MutualA == <<"a">> \o Tok(ky) \o <<"a">>

\* C27: a top-level lookup of a set / setList key k expands the stored
\* string with a fresh visited set that holds k already, so a token of k
\* met anywhere in the expansion is left verbatim: with x = "x${x}x" the
\* lookup of x is "x${x}x"; with y = "y${a}y" and an inherited
\* a = "a${y}a" the lookup of y is "ya${y}ay".
C27_TopLevelKeySeeded ==
    /\ TopLevelKey =>
          result.v = Expand(app, button, NearestKey("button", call.setKey).s,
                            SeenSet({call.setKey}), 1).v
    /\ (/\ TopLevelKey
        /\ call.setKey = KStr(kx)
        /\ NearestKey("button", KStr(kx)) = Str(SelfReference))
       => result.v = Str(SelfReference)
    /\ (/\ TopLevelKey
        /\ call.setKey = KStr(ky)
        /\ NearestKey("button", KStr(ky)) = Str(MutualY)
        /\ KeyDefiners("button", KStr(ka)) # {}
        /\ NearestKey("button", KStr(ka)) = Str(MutualA))
       => result.v = Str(<<"y", "a">> \o Tok(ky) \o <<"a", "y">>)

\* lookup(B, null, "y") with y = "y${a}y" on B and a = "a${y}a" on its
\* template
C27_Witness ==
    /\ TopLevelKey
    /\ call.setKey = KStr(ky)
    /\ DefinesKey(button, ky)
    /\ button.set[ky] = MutualY
    /\ KeyDefiners("button", KStr(ka)) = {2}
    /\ result.v = Str(<<"y", "a", "$", "{", "y", "}", "a", "y">>)

\* ------------------------------------------------------------------ C28
\* The records of the configuration form an `is` cycle
OnCycle ==
    /\ app.templates["T1"].is = "T2"
    /\ app.templates["T2"].is = "T1"

\* A lookup made on a record of the cycle or on the button below it
CycleLookup == OnCycle /\ Returned_lookup /\ call.on # "null"

\* C28: nothing guards lookup against a cyclic `is` chain.  With T1 is T2
\* and T2 is T1, the lookup of a property or of a set / setList key that no
\* record on the cycle defines recurses until the call stack is exhausted
\* and returns no value, for a set key even when the fallback map defines
\* it; the lookup of a property or key that a record on the cycle defines
\* yields that record's value (as stored in an internal lookup, expanded in
\* the requester's context otherwise) and returns whenever that value holds
\* no token.
C28_CyclicChainUnguarded ==
    /\ (/\ CycleLookup
        /\ call.key # NullKey
        /\ PropDefiners(call.on, call.key) = {})
       => result.v = RangeError
    /\ (/\ CycleLookup
        /\ call.setKey.t # "null"
        /\ KeyDefiners(call.on, call.setKey) = {})
       => result.v = RangeError
    /\ (/\ CycleLookup
        /\ call.key # NullKey
        /\ PropDefiners(call.on, call.key) # {})
       => /\ result.v = Returned(call.on, NearestProp(call.on, call.key),
                                 KNull, call.isLookup)
          /\ (call.isLookup \/ ~IsString(NearestProp(call.on, call.key))
                \/ Tokens(NearestProp(call.on, call.key).s, 1) = << >>)
                => result.v = NearestProp(call.on, call.key)
    /\ (/\ CycleLookup
        /\ call.setKey.t # "null"
        /\ KeyDefiners(call.on, call.setKey) # {})
       => /\ result.v = Returned(call.on, NearestKey(call.on, call.setKey),
                                 call.setKey, call.isLookup)
          /\ (call.isLookup
                \/ Tokens(NearestKey(call.on, call.setKey).s, 1) = << >>)
                => result.v = NearestKey(call.on, call.setKey)

\* lookup(B, null, "x"): no record defines x, the fallback map does, and
\* still the lookup overflows the stack
C28_Witness ==
    /\ CycleLookup
    /\ call.on = "button"
    /\ call.setKey = KStr(kx)
    /\ KeyDefiners("button", KStr(kx)) = {}
    /\ InFallback(KStr(kx))
    /\ result.v = RangeError

\* ------------------------------------------------------------------ C23
Returned_isOneOf == pc = "returned" /\ call.op = "isOneOf"

\* The checkers of the call that accept the value, by position
Accepting == {i \in 1..Len(call.list) : Check(call.list[i], call.c).ok}

\* Is the key path of a rejection deeper than the one isOneOf was given
Deeper(key, cKey) ==
    /\ Len(key) > Len(cKey)
    /\ SubSeq(key, 1, Len(cKey)) = cKey

\* What the rejection of checker i contributes to `expected`
Expectation(i) ==
    LET e == Check(call.list[i], call.c).e
    IN  IF Deeper(e.key, KeyOf(call.c))
        THEN <<"[">> \o e.message \o <<"]">>
        ELSE e.expected

\* The contributions of checkers i..n joined with " | "
RECURSIVE Expectations(_)
Expectations(i) ==
    IF i > Len(call.list) THEN << >>
    ELSE IF i = Len(call.list) THEN Expectation(i)
    ELSE Expectation(i) \o <<" ", "|", " ">> \o Expectations(i + 1)

\* The `expected` of the test 'should properly run isOneOf' for
\* isOneOf(isTestA, isTestB) on { type: 'c', x: 5 }
ExpectedAB ==
    <<"[", "A", "t", " ", "k", "e", "y", "-", "p", "a", "t", "h", " ", Grave,
      "t", "y", "p", "e", Grave, ",", " ", "e", "x", "p", "e", "c", "t", "e",
      "d", " ", Grave, "a", Grave, " ", "b", "u", "t", " ", "w", "a", "s", " ",
      "g", "i", "v", "e", "n", " ", Grave, "s", "t", "r", "i", "n", "g", Grave,
      " ", "(", "c", ")", ".", "]", " ", "|", " ", "[", "A", "t", " ", "k",
      "e", "y", "-", "p", "a", "t", "h", " ", Grave, "t", "y", "p", "e", Grave,
      ",", " ", "e", "x", "p", "e", "c", "t", "e", "d", " ", Grave, "b", Grave,
      " ", "b", "u", "t", " ", "w", "a", "s", " ", "g", "i", "v", "e", "n",
      " ", Grave, "s", "t", "r", "i", "n", "g", Grave, " ", "(", "c", ")", ".",
      "]">>

\* C23: isOneOf(c1, ..., cn)(c) returns what the first checker, in argument
\* order, that accepts the value returns, and throws a TvError only when
\* every checker rejects it; the error's `expected` is the rejected
\* checkers' expectations in argument order joined with " | ", a rejection
\* raised at a deeper key path contributing its full message in brackets,
\* and its `observed` is the value isOneOf was given.
C23_FirstAcceptingChecker ==
    Returned_isOneOf =>
        IF Accepting # {}
        THEN /\ result.ok
             /\ result.v = Check(call.list[Min(Accepting)], call.c).v
        ELSE /\ ~result.ok
             /\ result.e.expected = Expectations(1)
             /\ result.e.observed = call.c.value
             /\ result.e.key = KeyOf(call.c)

\* isOneOf(isTestA, isTestB) on { type: 'c', x: 5 }: both rejections are
\* raised at the key path `type`
C23_Witness ==
    /\ Returned_isOneOf
    /\ call.list = << isTestA, isTestB >>
    /\ ~call.c.hasKey
    /\ ~result.ok
    /\ result.e.expected = ExpectedAB
    /\ result.e.observed = call.c.value

\* ------------------------------------------------------------------ C21
\* The handler of request r got past its checks: it has a command line
Accepted(r) == requests[r].phase \in {"awaiting", "responded"}

CommandOf(r) == Commands[FindCommand(requests[r].body.name)]

\* The argument schemas of r's command that list a non-empty `values`
ListedSpecs(r) ==
    {i \in 1..Len(CommandOf(r).arguments) :
        /\ CommandOf(r).arguments[i].listed
        /\ CommandOf(r).arguments[i].values # << >>}

\* Is text v one of the listed values
InList(spec, v) == \E i \in 1..Len(spec.values) : spec.values[i] = v

\* Does the request body carry a listed value under the key of spec
RequestedInList(r, spec) ==
    /\ spec.key \in DOMAIN requests[r].body.arguments
    /\ InList(spec, requests[r].body.arguments[spec.key])

\* C21: for every argument whose schema lists a non-empty `values`, the
\* value the command line is built from is a member of `values`: the
\* request's value when that is listed, the first listed value when the
\* request's value is missing or not listed; the command line is the
\* runner expanded with these values, and no process exists whose request
\* did not pass through this.
C21_ListedValuesOnly ==
    \A r \in 1..Len(requests) :
        /\ requests[r].proc # "none" => Accepted(r)
        /\ Accepted(r) =>
              /\ \A i \in ListedSpecs(r) :
                    LET spec == CommandOf(r).arguments[i]
                        used == requests[r].args[spec.key]
                    IN  /\ spec.key \in DOMAIN requests[r].args
                        /\ IsString(used)
                        /\ InList(spec, used.s)
                        /\ used.s = IF RequestedInList(r, spec)
                                    THEN requests[r].body.arguments[spec.key]
                                    ELSE spec.values[1]
                        /\ \A j \in 1..Len(CommandOf(r).runner) :
                              CommandOf(r).runner[j] = Tok(spec.key)
                                  => InList(spec, requests[r].cli[j])
              /\ requests[r].cli =
                    [j \in 1..Len(CommandOf(r).runner) |->
                        ExpandArgument(CommandOf(r).runner[j],
                                       requests[r].args)]

\* `ls` requested with a = "-rf", which is not listed: the process runs
\* with "-l", the first listed value
C21_Witness ==
    \E r \in 1..Len(requests) :
        /\ requests[r].proc = "running"
        /\ requests[r].body.name = "ls"
        /\ ka \in DOMAIN requests[r].body.arguments
        /\ requests[r].body.arguments[ka] = <<"-", "r", "f">>
        /\ requests[r].cli[2] = <<"-", "l">>
        /\ requests[r].cli[3] = <<"x", "-", "l", "x">>

\* ------------------------------------------------------------------ C22
Persisted(r) == Truthy(requests[r].body.isPersisted)

\* The process of r was started: spawn returned it and no 'error' came
Started(r) == requests[r].proc \in {"running", "closed"}

\* Is sequence a a prefix of sequence b
IsPrefix(a, b) == Len(a) <= Len(b) /\ SubSeq(b, 1, Len(a)) = a

\* C22: a run request with isPersisted true is answered in the step that
\* starts the process, with the task as it is then (no output, timeEnd and
\* code null), and the process runs on, its output being appended to the
\* task that was stored; a request without isPersisted is answered only
\* when the process is no longer running, with the task as it is then, so
\* the results of the response have a non-null timeEnd whenever the
\* process was started.
C22_ResponseTiming ==
    \A r \in 1..Len(requests) :
        /\ (Accepted(r) /\ Persisted(r)) =>
              /\ requests[r].phase = "responded"
              /\ requests[r].response.status = 200
              /\ requests[r].response.results.out = << >>
              /\ requests[r].response.results.timeEnd.nil
              /\ requests[r].response.results.code.nil
              /\ IsPrefix(requests[r].response.results.out,
                          requests[r].results.out)
        /\ (Accepted(r) /\ ~Persisted(r)) =>
              /\ requests[r].proc = "running"
                    <=> requests[r].phase = "awaiting"
              /\ requests[r].phase = "awaiting"
                    => requests[r].response = NoResponse
              /\ requests[r].phase = "responded" =>
                    /\ requests[r].response.status = 200
                    /\ Started(r) =>
                          /\ ~requests[r].response.results.timeEnd.nil
                          /\ requests[r].response.results
                                 = requests[r].results

\* A persisted request has been answered, its process still runs and has
\* written output since, which the task stored under its id holds; beside
\* it a request without isPersisted was answered after its process ended
C22_Witness ==
    \E r, q \in 1..Len(requests) :
        /\ Persisted(r)
        /\ requests[r].phase = "responded"
        /\ requests[r].proc = "running"
        /\ requests[r].results.out # << >>
        /\ requests[r].pid \in DOMAIN tasks
        /\ tasks[requests[r].pid] = r
        /\ ~Persisted(q)
        /\ requests[q].phase = "responded"
        /\ requests[q].proc = "closed"
        /\ requests[q].response.results.out # << >>
        /\ ~requests[q].response.results.timeEnd.nil

\* ------------------------------------------------------------------ C29
\* C29: storing a task never overwrites a stored task: a command id that
\* is in the task map before and after a step names the same task, however
\* the id generation and the insertion of concurrent run requests
\* interleave.
C29_NeverOverwrites ==
    [][\A id \in DOMAIN tasks :
          id \in DOMAIN tasks' => tasks'[id] = tasks[id]]_vars

\* ------------------------------------------------------------------ C30
\* The error type a body has to be answered with, "" for none
RejectType(body) ==
    IF body.kind # "request" THEN "command-json"
    ELSE IF \A i \in 1..Len(Commands) : Commands[i].name # body.name
    THEN "command-name"
    ELSE IF \/ Commands[FindCommand(body.name)].runner = << >>
            \/ ExpandArgument(Commands[FindCommand(body.name)].runner[1],
                              Constrain(Commands[FindCommand(body.name)]
                                            .arguments,
                                        ArgsOf(body))) = << >>
    THEN "command-bin"
    ELSE ""

\* Request q, its task object and its process are the same after the step
Untouched(q) == requests'[q] = requests[q]

\* C30: the step in which the handler of a run request finds the body not
\* to be a CommandRequest, the command name not configured or the runner
\* without a binary name answers with an error response of that type
\* (command-json, command-name, command-bin) and changes nothing else: the
\* task map is the same (nothing added, nothing expired), no process is
\* started and every other request is as it was.  The arrival of a
\* request, before its body is read, changes nothing of that either.
C30_RejectionChangesNothing ==
    [][/\ \A r \in 1..Len(requests) :
             (/\ requests[r].phase = "reading"
              /\ requests'[r].phase # "reading"
              /\ RejectType(requests[r].body) # "")
             => /\ requests'[r].phase = "rejected"
                /\ requests'[r].response
                       = RespondJsonError(RejectType(requests[r].body))
                /\ requests'[r].proc = "none"
                /\ requests'[r].results = requests[r].results
                /\ tasks' = tasks
                /\ \A q \in 1..Len(requests) : q # r => Untouched(q)
       /\ Len(requests') > Len(requests)
             => /\ tasks' = tasks
                /\ \A q \in 1..Len(requests) : Untouched(q)]_vars

\* A request was answered command-bin while the task map holds a task that
\* ended longer ago than the expiry time (an accepted request would have
\* removed it) and another task's process is running
C30_Witness ==
    \E r, q \in 1..Len(requests) :
        /\ requests[r].phase = "rejected"
        /\ requests[r].response = RespondJsonError("command-bin")
        /\ requests[r].pid \notin DOMAIN tasks
        /\ requests[q].pid \in DOMAIN tasks
        /\ tasks[requests[q].pid] = q
        /\ Expired(requests[q].results.timeEnd)

====
